---------------------------- MODULE Spec2Model ----------------------------
(***************************************************************************)
(* xQubit.AI site: the theme flag (js/main.js initTheme) and the five      *)
(* theme-aware Three.js scenes (js/three-scenes.js and its two sibling     *)
(* revisions src/unnamed/part_000 and src/unnamed/part_001).               *)
(*                                                                         *)
(* Fixed-point units used throughout:                                      *)
(*   colours      24-bit integers (the hex literals of the source)         *)
(*   opacities, scales, lengths, Math.random() values    thousandths       *)
(*   angles       1e-4 rad          elapsed time   centiseconds            *)
(* Math.random() is the engine's hidden pseudo random generator: a state   *)
(* `rng` that every call advances.                                         *)
(***************************************************************************)
EXTENDS Integers, Sequences, FiniteSets, TLC

VARIABLES
    script,        \* which revision of the scene script the page loads
    containers,    \* ids of the scene containers present in the document
    hasToggle,     \* is there an element with id theme-toggle
    localStorage,  \* the value of localStorage item 'theme'
    dataTheme,     \* the data-theme attribute of the document root
    mainLoaded,    \* main.js DOMContentLoaded listener has run
    scenesLoaded,  \* the scene script's DOMContentLoaded listener has run
    rng,           \* hidden state of Math.random()
    now,           \* time since navigation start, in TimeStep units
    viewport,      \* offsetWidth / offsetHeight of the scene containers
    clicks,        \* clicks on the theme toggle since the page was loaded
    loads,         \* page loads so far
    hero, tech, about, cta, feat,   \* the five scene objects
    main,          \* the document and the state of js/main.js
    uncaught       \* names of the exceptions no handler caught

vars == <<script, containers, hasToggle, localStorage, dataTheme, mainLoaded,
          scenesLoaded, rng, now, viewport, clicks, loads, hero, tech, about,
          cta, feat, main, uncaught>>

sceneVars == <<hero, tech, about, cta, feat>>
pageVars  == <<script, containers, hasToggle>>

-----------------------------------------------------------------------------
(* Bounds of the model *)

MaxTime == 1          \* the clock stops advancing after MaxTime steps
MaxFrames == 2        \* animation frames rendered per page load
MaxClicks == 2        \* theme-toggle clicks per page load
MaxLoads == 2         \* page loads (the first load and the reloads)
ParticleCount == 1    \* hero particles (500 or 800 in the source)
LineCount == 2        \* hero entanglement lines (20 in the source)
FloatCount == 1       \* CTA particles (200 in the source)
RngModulus == 16      \* number of states of the random generator
NumSeeds == 2         \* seeds the generator may start a page load with

TimeStep == 50        \* centiseconds the clock advances per step
MaxElapsed == 200     \* elapsed times the tick formulas are evaluated at
MaxClock == 4000      \* milliseconds of page time js/main.js is followed for
ClockStep == 500      \* the longest step of that time without an event
MaxLead == 2          \* keys pressed before the Konami sequence is typed
NumCounters == 2      \* .stat-number elements in the document

-----------------------------------------------------------------------------
(* Values *)

NoValue == "<null>"   \* getAttribute / getItem returning null
Undefined == -1       \* a property that is not set on an object

Scripts == {"three-scenes.js", "part_000", "part_001"}
SceneIds == {"hero-canvas", "tech-canvas", "about-canvas", "cta-canvas",
             "feature-visual-1"}

\* Container sizes the layout may give (width, height in pixels).
Sizes == { [w |-> 800, h |-> 600], [w |-> 800, h |-> 0], [w |-> 0, h |-> 600] }

\* The documents the script is loaded into, by the scene containers they
\* have: the home page, a page with two of them, a page with none.
Pages == { SceneIds, {"hero-canvas", "feature-visual-1"}, {} }

\* Pointer positions as fractions of the window, thousandths.
PointerPositions == { [x |-> 1000, y |-> 0] }

-----------------------------------------------------------------------------
(* Arithmetic helpers *)

Pi == 31416
TwoPi == 62832

Mul(a, b) == (a * b) \div 1000

\* Math.sin on [0, pi], Bhaskara's rational approximation on centiradians.
SinHalf(x) ==
    LET xc == x \div 100
        p  == xc * (314 - xc)
    IN  (16000 * p) \div (492980 - 4 * p)

Sin(a) ==
    LET m == a % TwoPi
    IN  IF m <= Pi THEN SinHalf(m) ELSE 0 - SinHalf(m - Pi)

Cos(a) == Sin(a + 15708)

\* Math.acos on [-1, 1], linear between acos(1) = 0 and acos(-1) = pi.
Acos(u) == ((1000 - u) * Pi) \div 2000

\* Math.random(): the generator's step (a Weyl sequence: the state advances
\* by a constant odd increment) and its state after k calls.
RngNext(s) == (s + 7) % RngModulus

RngAt(s, k) == (s + 7 * k) % RngModulus

\* The value of the k-th call of Math.random() made from generator state s.
Random(s, k) == (RngAt(s, k) * 1000) \div RngModulus

\* A sequence built by a for loop: <<f(0), ..., f(n-1)>>.
Loop(n, f(_)) == [ix \in 1..n |-> f(ix - 1)]


-----------------------------------------------------------------------------
(* Palettes and the current theme (three-scenes.js) *)

\* A light palette that lacks depth4.
ThemeColors_Partial ==
    [ dark  |-> [ primary |-> \H0EA5E9, secondary |-> \H06B6D4,
                  highlight |-> \H14B8A6, background |-> \H1A1A25,
                  particleOpacity |-> 800, lineOpacity |-> 300,
                  glowOpacity |-> 900 ],
      light |-> [ primary |-> \H1E40AF, secondary |-> \H3B82F6,
                  highlight |-> \H60A5FA,
                  depth1 |-> \H1E3A8A, depth2 |-> \H2563EB,
                  depth3 |-> \H3B82F6, depth5 |-> \H93C5FD,
                  background |-> \HFAFBFD,
                  particleOpacity |-> 750, lineOpacity |-> 350,
                  glowOpacity |-> 500,
                  wireframeOpacity |-> 600, solidOpacity |-> 850,
                  emissiveIntensity |-> 150 ] ]

ThemeColors ==
    [ dark  |-> [ primary |-> \H0EA5E9, secondary |-> \H06B6D4,
                  highlight |-> \H14B8A6, background |-> \H1A1A25,
                  particleOpacity |-> 800, lineOpacity |-> 300,
                  glowOpacity |-> 900 ],
      light |-> [ primary |-> \H1E40AF, secondary |-> \H3B82F6,
                  highlight |-> \H60A5FA,
                  depth1 |-> \H1E3A8A, depth2 |-> \H2563EB,
                  depth3 |-> \H3B82F6, depth4 |-> \H60A5FA,
                  depth5 |-> \H93C5FD,
                  background |-> \HFAFBFD,
                  particleOpacity |-> 750, lineOpacity |-> 350,
                  glowOpacity |-> 500,
                  wireframeOpacity |-> 600, solidOpacity |-> 850,
                  emissiveIntensity |-> 150 ] ]

\* getAttribute('data-theme') returned as it is, without the default.
getCurrentTheme_NoDefault(attr) == attr

\* document.documentElement.getAttribute('data-theme') || 'dark'
getCurrentTheme(attr) == IF attr = NoValue \/ attr = "" THEN "dark" ELSE attr

\* colors.key: the value, or undefined when the palette has no such key.
Get(colors, key) == IF key \in DOMAIN colors THEN colors[key] ELSE Undefined

\* undefined * k is NaN, which is kept as Undefined.
Scale(v, k) == IF v = Undefined THEN Undefined ELSE Mul(v, k)

-----------------------------------------------------------------------------
(* Three.js objects *)

Material(type, color, opacity) ==
    [ type |-> type, color |-> color, opacity |-> opacity,
      emissive |-> Undefined, emissiveIntensity |-> Undefined,
      size |-> Undefined ]

PhongMaterial(color, opacity, emissive, intensity) ==
    [ type |-> "MeshPhongMaterial", color |-> color, opacity |-> opacity,
      emissive |-> emissive, emissiveIntensity |-> intensity,
      size |-> Undefined ]

PointsMaterial(size, opacity) ==
    [ type |-> "PointsMaterial", color |-> \HFFFFFF, opacity |-> opacity,
      emissive |-> Undefined, emissiveIntensity |-> Undefined,
      size |-> size ]

NoMaterial == Material("none", Undefined, Undefined)

Geometry(kind, params) == [ kind |-> kind, params |-> params ]

\* container.offsetWidth / container.offsetHeight, kept as its operands:
\* h = 0 makes it Infinity (w > 0) or NaN (w = 0).
Aspect(size) == [ w |-> size.w, h |-> size.h ]

IsNaN(aspect) == aspect.h = 0 /\ aspect.w = 0
IsInfinite(aspect) == aspect.h = 0 /\ aspect.w # 0

Camera(fov, size, x, y, z) ==
    [ fov |-> fov, aspect |-> Aspect(size), x |-> x, y |-> y, z |-> z ]

NoCamera == [ fov |-> 0, aspect |-> [w |-> 0, h |-> 1], x |-> 0, y |-> 0, z |-> 0 ]
NoSize == [ w |-> 0, h |-> 0 ]


-----------------------------------------------------------------------------
(* Hero section: QuantumHeroScene (three-scenes.js) *)

\* What a constructor that found no container leaves behind.
NoHero ==
    [ container |-> FALSE, canvases |-> 0, camera |-> NoCamera, size |-> NoSize,
      core |-> [exists |-> FALSE, material |-> NoMaterial,
                geometry |-> Geometry("none", <<>>), rotX |-> 0, rotY |-> 0],
      innerCore |-> [exists |-> FALSE, material |-> NoMaterial,
                     geometry |-> Geometry("none", <<>>), rotX |-> 0, rotY |-> 0],
      glowSphere |-> [exists |-> FALSE, material |-> NoMaterial,
                      geometry |-> Geometry("none", <<>>), scale |-> 1000],
      particleSystem |-> [exists |-> FALSE, material |-> NoMaterial, rotY |-> 0],
      particles |-> <<>>, positions |-> <<>>, vertexColors |-> <<>>,
      sizes |-> <<>>,
      quantumOrbitals |-> <<>>, entanglementLines |-> <<>>, lights |-> 0,
      mouse |-> [x |-> 0, y |-> 0],
      resizeListeners |-> 0, mouseListeners |-> 0, observers |-> 0,
      queue |-> 0, raf |-> 0, frames |-> 0, clockStart |-> 0,
      trace |-> <<>> ]

\* Spherical to Cartesian, as written into the position array.
Cartesian(r, phi, theta) ==
    [ x |-> Mul(Mul(r, Sin(phi)), Cos(theta)),
      y |-> Mul(Mul(r, Sin(phi)), Sin(theta)),
      z |-> Mul(r, Cos(phi)) ]

createQuantumCore(h, colors) ==
    [ h EXCEPT
        !.core = [exists |-> TRUE,
                  material |-> Material("MeshBasicMaterial", Get(colors, "primary"), 800),
                  geometry |-> Geometry("Icosahedron", <<2000, 2>>),
                  rotX |-> 0, rotY |-> 0],
        !.innerCore = [exists |-> TRUE,
                  material |-> Material("MeshBasicMaterial", Get(colors, "secondary"), 600),
                  geometry |-> Geometry("Icosahedron", <<1000, 1>>),
                  rotX |-> 0, rotY |-> 0],
        !.glowSphere = [exists |-> TRUE,
                  material |-> Material("MeshBasicMaterial", Get(colors, "primary"),
                                        Get(colors, "glowOpacity")),
                  geometry |-> Geometry("Sphere", <<500, 32, 32>>),
                  scale |-> 1000] ]

\* Math.random() calls per particle in createParticles.
ParticleDraws(theme) == IF theme = "light" THEN 6 ELSE 7

createParticles(h, theme, colors, s) ==
    LET n == ParticleDraws(theme)
        radius(i) == 8000 + Mul(Random(s, n * i + 1), 20000)
        theta(i)  == Mul(Random(s, n * i + 2), TwoPi)
        phi(i)    == Acos(2 * Random(s, n * i + 3) - 1000)
        color(i)  ==
            IF theme = "light"
            THEN [from |-> Get(colors, "depth2"), to |-> Get(colors, "depth5"),
                  ratio |-> (radius(i) - 8000) \div 20]
            ELSE [from |-> Get(colors, "primary"), to |-> Get(colors, "secondary"),
                  ratio |-> Random(s, n * i + 4)]
        particle(i) ==
            [ index |-> i, radius |-> radius(i), theta |-> theta(i),
              phi |-> phi(i),
              speed |-> 10 + Mul(Random(s, n * i + n - 1), 20),
              phaseOffset |-> Mul(Random(s, n * i + n), TwoPi) ]
        position(i) == Cartesian(radius(i), phi(i), theta(i))
        size(i) == Random(s, n * i + n - 2) * 2 + 500
    IN  [ h EXCEPT
            !.particles = Loop(ParticleCount, particle),
            !.positions = Loop(ParticleCount, position),
            !.vertexColors = Loop(ParticleCount, color),
            !.sizes = Loop(ParticleCount, size),
            !.particleSystem =
                [exists |-> TRUE,
                 material |-> PointsMaterial(150, Get(colors, "particleOpacity")),
                 rotY |-> 0] ]

createOrbitalRings(h, colors) ==
    LET ringCount == 3
        ringColors == <<Get(colors, "primary"), Get(colors, "secondary"),
                        Get(colors, "highlight")>>
        ring(i) ==
            [ material |-> Material("MeshBasicMaterial", ringColors[i + 1], 400),
              geometry |-> Geometry("Torus", <<5000 + i * 3000, 20, 16, 100>>),
              rotX |-> 15708 + i * 3000, rotY |-> i * 5000, rotZ |-> 0,
              speedX |-> 10 * (i + 1), speedY |-> 20 * (ringCount - i),
              speedZ |-> 15 * (i + 1) ]
    IN  [ h EXCEPT !.quantumOrbitals = Loop(ringCount, ring) ]

\* Math.random() calls per line in createEntanglementLines: start angle,
\* radius, the 51 points of the curve, colour and phase.
LineDraws == 55

createEntanglementLines(h, colors, s) ==
    LET line(i) ==
            [ material |->
                  Material("LineBasicMaterial",
                           IF Random(s, LineDraws * i + 54) > 500
                           THEN Get(colors, "primary")
                           ELSE Get(colors, "secondary"),
                           200),
              geometry |->
                  Geometry("Curve", <<Mul(Random(s, LineDraws * i + 1), TwoPi),
                                      4000 + Mul(Random(s, LineDraws * i + 2), 8000)>>),
              phase |-> Mul(Random(s, LineDraws * i + 55), TwoPi),
              rotY |-> 0 ]
    IN  [ h EXCEPT !.entanglementLines = Loop(LineCount, line) ]

\* The statements of one animate() invocation, in the order they run, are
\* logged in the scene's trace.
Entered(sc) == [ sc EXCEPT !.trace = <<>> ]

Step(sc, name) == [ sc EXCEPT !.trace = Append(@, name) ]

\* A frame request that registers no callback.
requestAnimationFrame_Dropped(sc) == Step(sc, "requestAnimationFrame")

\* requestAnimationFrame(() => this.animate())
requestAnimationFrame(sc) ==
    Step([ sc EXCEPT !.raf = @ + 1 ], "requestAnimationFrame")

\* const time = this.clock.getElapsedTime()
getElapsedTime(sc) == Step(sc, "getElapsedTime")

\* The first statements of animate(), the same in the five scene classes.
\* animate with the elapsed time read before the next frame is requested.
Began_TimeFirst(sc) == requestAnimationFrame(getElapsedTime(Entered(sc)))

Began(sc) == getElapsedTime(requestAnimationFrame(Entered(sc)))

\* A particle advanced and moved to the next slot of the position array.
Advance_Shifted(p) == [ p EXCEPT !.theta = @ + p.speed, !.index = @ + 1 ]

\* particle.theta += particle.speed
Advance(p) == [ p EXCEPT !.theta = @ + p.speed ]

\* A perturbation of amplitude 3 instead of 2.
Radial_Wide(p, t) == p.radius + Mul(Sin(t * 100 + p.phaseOffset), 3000)

\* r = particle.radius + Math.sin(time + particle.phaseOffset) * 2
Radial(p, t) == p.radius + Mul(Sin(t * 100 + p.phaseOffset), 2000)

\* The per-frame update, at elapsed time t (centiseconds).
HeroAnimate(h, t) ==
    LET particle(i) ==
            Advance(h.particles[i])
        position(i) ==
            LET p == particle(i)
                r == Radial(p, t)
            IN  Cartesian(r, p.phi, p.theta)
        orbital(i) ==
            LET o == h.quantumOrbitals[i]
            IN  [ o EXCEPT !.rotX = @ + o.speedX, !.rotY = @ + o.speedY,
                           !.rotZ = @ + o.speedZ ]
        line(i) ==
            LET l == h.entanglementLines[i]
            IN  [ l EXCEPT !.rotY = t * 10 + l.phase,
                           !.material.opacity =
                               100 + Mul(100, Sin(t * 200 + l.phase)) ]
    IN  [ Began(h) EXCEPT
            !.trace = @ \o <<"update", "render">>,
            !.core = IF @.exists
                     THEN [@ EXCEPT !.rotX = t * 20, !.rotY = t * 30] ELSE @,
            !.innerCore = IF @.exists
                     THEN [@ EXCEPT !.rotX = 0 - t * 30, !.rotY = 0 - t * 20] ELSE @,
            !.glowSphere = IF @.exists
                     THEN [@ EXCEPT !.scale = 1000 + Mul(200, Sin(t * 200))] ELSE @,
            !.particles = IF h.particleSystem.exists
                          THEN [i \in DOMAIN @ |-> particle(i)] ELSE @,
            !.positions = IF h.particleSystem.exists
                          THEN [i \in DOMAIN @ |-> position(i)] ELSE @,
            !.particleSystem = IF @.exists THEN [@ EXCEPT !.rotY = t * 5] ELSE @,
            !.quantumOrbitals = [i \in DOMAIN @ |-> orbital(i)],
            !.entanglementLines = [i \in DOMAIN @ |-> line(i)],
            !.camera = [@ EXCEPT
                          !.x = @ + ((h.mouse.x * 5 - @) * 20) \div 1000,
                          !.y = h.camera.y
                                + ((h.mouse.y * 3 - h.camera.y) * 20) \div 1000],
            !.frames = @ + 1 ]

\* An onMouseMove that also moves the camera at once.
HeroOnMouseMove_Pan(h, p) ==
    [ h EXCEPT !.mouse = [x |-> p.x * 2 - 1000, y |-> 0 - (p.y * 2) + 1000],
               !.camera.x = p.x * 2 - 1000 ]

HeroOnMouseMove(h, p) ==
    [ h EXCEPT !.mouse = [x |-> p.x * 2 - 1000, y |-> 0 - (p.y * 2) + 1000] ]

\* An onResize that also moves the camera back on every call.
onResize_Dolly(sc, size) ==
    IF ~sc.container THEN sc
    ELSE [ sc EXCEPT !.camera.aspect = Aspect(size), !.size = size,
                     !.camera.z = @ + 1000 ]

\* onResize, the same code in all five scene classes.
\* An onResize that calls animate again.
onResize_Restart(sc, size) ==
    IF ~sc.container THEN sc
    ELSE [ sc EXCEPT !.camera.aspect = Aspect(size), !.size = size,
                     !.raf = @ + 1 ]

onResize(sc, size) ==
    IF ~sc.container THEN sc
    ELSE [ sc EXCEPT !.camera.aspect = Aspect(size), !.size = size ]

\* setupThemeObserver called twice: two observers per scene.
setupThemeObserver_Twice(sc) == [ sc EXCEPT !.observers = @ + 2 ]

\* setupThemeObserver, the same code in all five scene classes.
setupThemeObserver(sc) == [ sc EXCEPT !.observers = @ + 1 ]

\* window.addEventListener('resize', ...) in init.
addResizeListener(sc) == [ sc EXCEPT !.resizeListeners = @ + 1 ]

\* if (!this.container) return;  with the container missing and the guard
\* absent, this.container.offsetWidth would throw instead.
Unguarded(blank, s) == [ scene |-> blank, rng |-> s, error |-> TRUE ]

Absent(blank, s) == [ scene |-> blank, rng |-> s, error |-> FALSE ]

\* The constructor up to init's appendChild: camera, renderer, canvas.
Construct(blank, fov, size, z, t) ==
    [ blank EXCEPT !.container = TRUE, !.canvases = 1,
                   !.camera = Camera(fov, size, 0, 0, z), !.size = size,
                   !.clockStart = t ]

\* updateColors with data-theme = attr and generator state s.  With an
\* unknown theme colors is undefined: the first colors.primary throws.
HeroUpdateColors(h, attr, s) ==
    LET theme  == getCurrentTheme(attr)
        colors == ThemeColors[theme]
    IN
    IF theme \notin DOMAIN ThemeColors
    THEN [ scene |-> h, rng |-> s, error |-> TRUE ]
    ELSE IF theme = "light"
    THEN
      [ scene |->
          [ h EXCEPT
              !.core.material = IF h.core.exists
                  THEN [@ EXCEPT !.color = Get(colors, "depth1"),
                                 !.opacity = Get(colors, "wireframeOpacity")]
                  ELSE @,
              !.innerCore.material = IF h.innerCore.exists
                  THEN [@ EXCEPT !.color = Get(colors, "depth2"),
                                 !.opacity = Scale(Get(colors, "wireframeOpacity"), 800)]
                  ELSE @,
              !.glowSphere.material = IF h.glowSphere.exists
                  THEN [@ EXCEPT !.color = Get(colors, "depth3"),
                                 !.opacity = Get(colors, "glowOpacity")]
                  ELSE @,
              !.particleSystem.material = IF h.particleSystem.exists
                  THEN [@ EXCEPT !.opacity = Get(colors, "particleOpacity")]
                  ELSE @,
              !.quantumOrbitals = [i \in DOMAIN @ |->
                  [ h.quantumOrbitals[i] EXCEPT
                      !.material.color =
                          <<Get(colors, "depth2"), Get(colors, "depth3"),
                            Get(colors, "depth4")>>[((i - 1) % 3) + 1],
                      !.material.opacity = 500 - (i - 1) * 100 ]],
              !.entanglementLines = [i \in DOMAIN @ |->
                  [ h.entanglementLines[i] EXCEPT
                      !.material.color = Get(colors, "depth4"),
                      !.material.opacity = Get(colors, "lineOpacity") ]] ],
        rng |-> s, error |-> FALSE ]
    ELSE
      [ scene |->
          [ h EXCEPT
              !.core.material = IF h.core.exists
                  THEN [@ EXCEPT !.color = Get(colors, "primary"), !.opacity = 800]
                  ELSE @,
              !.innerCore.material = IF h.innerCore.exists
                  THEN [@ EXCEPT !.color = Get(colors, "secondary"), !.opacity = 600]
                  ELSE @,
              !.glowSphere.material = IF h.glowSphere.exists
                  THEN [@ EXCEPT !.color = Get(colors, "primary"),
                                 !.opacity = Get(colors, "glowOpacity")]
                  ELSE @,
              !.particleSystem.material = IF h.particleSystem.exists
                  THEN [@ EXCEPT !.opacity = Get(colors, "particleOpacity")]
                  ELSE @,
              !.quantumOrbitals = [i \in DOMAIN @ |->
                  [ h.quantumOrbitals[i] EXCEPT
                      !.material.color =
                          <<Get(colors, "primary"), Get(colors, "secondary"),
                            Get(colors, "highlight")>>[((i - 1) % 3) + 1],
                      !.material.opacity = 400 ]],
              !.entanglementLines = [i \in DOMAIN @ |->
                  [ h.entanglementLines[i] EXCEPT
                      !.material.color =
                          IF Random(s, i) > 500 THEN Get(colors, "primary")
                                                ELSE Get(colors, "secondary"),
                      !.material.opacity = 200 ]] ],
        rng |-> RngAt(s, Len(h.entanglementLines)), error |-> FALSE ]



-----------------------------------------------------------------------------
(* Technology section: QuantumProcessorScene (three-scenes.js) *)

GridHalf == 2      \* for (let x = -2; x <= 2; x++)
Spacing == 3000    \* const spacing = 3

NoTech ==
    [ container |-> FALSE, canvases |-> 0, camera |-> NoCamera, size |-> NoSize,
      gridHelper |-> [exists |-> FALSE, material |-> NoMaterial,
                      centerColor |-> 0, gridColor |-> 0],
      qubits |-> <<>>, connections |-> <<>>, lights |-> 0,
      resizeListeners |-> 0, observers |-> 0,
      queue |-> 0, raf |-> 0, frames |-> 0, clockStart |-> 0,
      trace |-> <<>> ]

createQuantumGrid(p, theme, colors) ==
    [ p EXCEPT !.gridHelper =
        [ exists |-> TRUE,
          centerColor |-> IF theme = "light" THEN \H0284C7
                                             ELSE Get(colors, "primary"),
          gridColor |-> IF theme = "light" THEN \HE5E7EB ELSE \H1A1A25,
          material |-> Material("LineBasicMaterial", \HFFFFFF,
                                IF theme = "light" THEN 200 ELSE 300) ] ]

\* Math.random() calls per qubit in createQubits: colour, phase, frequency.
QubitDraws == 3

createQubits(p, colors, s) ==
    LET side == 2 * GridHalf + 1
        qubit(i) ==
            [ mesh |-> Material("MeshBasicMaterial",
                                IF Random(s, QubitDraws * i + 1) > 500
                                THEN Get(colors, "primary")
                                ELSE Get(colors, "secondary"),
                                900),
              ring |-> Material("MeshBasicMaterial", Get(colors, "primary"), 500),
              geometry |-> Geometry("Sphere", <<300, 16, 16>>),
              ringGeometry |-> Geometry("Torus", <<500, 20, 8, 32>>),
              x |-> ((i \div side) - GridHalf) * Spacing,
              y |-> 0,
              z |-> ((i % side) - GridHalf) * Spacing,
              scale |-> 1000, ringRotX |-> 15708, ringRotZ |-> 0,
              baseY |-> 0,
              phase |-> Mul(Random(s, QubitDraws * i + 2), TwoPi),
              frequency |-> 1000 + Random(s, QubitDraws * i + 3) ]
    IN  [ p EXCEPT !.qubits = Loop(side * side, qubit) ]

\* distanceTo(other) < 4.5: the diagonal neighbours are near as well.
Near_Diagonal(a, b) ==
    (a.x - b.x) * (a.x - b.x) + (a.y - b.y) * (a.y - b.y)
        + (a.z - b.z) * (a.z - b.z) < 4500 * 4500

\* distanceTo(other) < 4, on squares.
Near(a, b) ==
    (a.x - b.x) * (a.x - b.x) + (a.y - b.y) * (a.y - b.y)
        + (a.z - b.z) * (a.z - b.z) < 4000 * 4000

createConnections(p, colors) ==
    LET n == Len(p.qubits)
        \* the k-th pair (i, j) of the nested loops, k from 0, with any j
        pair(k) == <<(k \div n) + 1, (k % n) + 1>>
        Linked(pr) == pr[1] < pr[2] /\ Near(p.qubits[pr[1]], p.qubits[pr[2]])
        RECURSIVE links(_, _)
        \* the linked pairs among pair(lo) .. pair(hi), in loop order
        links(lo, hi) ==
            IF lo = hi THEN (IF Linked(pair(lo)) THEN <<pair(lo)>> ELSE <<>>)
            ELSE links(lo, (lo + hi) \div 2) \o links(((lo + hi) \div 2) + 1, hi)
        linked == links(0, n * n - 1)
    IN  [ p EXCEPT !.connections =
            [k \in DOMAIN linked |->
                [ from |-> linked[k][1], to |-> linked[k][2],
                  material |-> Material("LineBasicMaterial",
                                        Get(colors, "primary"), 300) ]] ]

TechAnimate(p, t) ==
    [ Began(p) EXCEPT
        !.trace = @ \o <<"update", "render">>,
        !.qubits = [i \in DOMAIN @ |->
            LET q == p.qubits[i]
            IN  [ q EXCEPT
                    !.y = q.baseY
                          + Mul(Sin((t * q.frequency) \div 10 + q.phase), 500),
                    !.ringRotZ = t * 200,
                    !.scale = 1000 + Mul(100, Sin(t * 300 + q.phase)) ]],
        !.camera = [@ EXCEPT !.x = Mul(Sin(t * 20), 25000),
                             !.z = Mul(Cos(t * 20), 25000)],
        !.frames = @ + 1 ]

TechUpdateColors(p, attr, s) ==
    LET theme  == getCurrentTheme(attr)
        colors == ThemeColors[theme]
        grid ==
            IF ~p.gridHelper.exists THEN p.gridHelper
            ELSE IF theme = "light"
            THEN [ p.gridHelper EXCEPT !.material.color = Get(colors, "depth4"),
                                       !.material.opacity = 250 ]
            ELSE [ p.gridHelper EXCEPT !.material.color = Get(colors, "primary"),
                                       !.material.opacity = 300 ]
        depthLevel(i) == <<Get(colors, "depth2"), Get(colors, "depth3"),
                           Get(colors, "depth4")>>[((i - 1) % 3) + 1]
    IN
    IF theme \notin DOMAIN ThemeColors
    THEN [ scene |-> p, rng |-> s, error |-> TRUE ]
    ELSE IF theme = "light"
    THEN
      [ scene |->
          [ p EXCEPT
              !.gridHelper = grid,
              !.qubits = [i \in DOMAIN @ |->
                  [ p.qubits[i] EXCEPT
                      !.mesh.color = depthLevel(i),
                      !.mesh.opacity = Get(colors, "solidOpacity"),
                      !.ring.color = depthLevel(i),
                      !.ring.opacity = 500 ]] ],
        rng |-> s, error |-> FALSE ]
    ELSE
      [ scene |->
          [ p EXCEPT
              !.gridHelper = grid,
              !.qubits = [i \in DOMAIN @ |->
                  [ p.qubits[i] EXCEPT
                      !.mesh.color =
                          IF Random(s, i) > 500 THEN Get(colors, "primary")
                                                ELSE Get(colors, "secondary"),
                      !.mesh.opacity = 900,
                      !.ring.color = Get(colors, "primary"),
                      !.ring.opacity = 500 ]] ],
        rng |-> RngAt(s, Len(p.qubits)), error |-> FALSE ]

-----------------------------------------------------------------------------
(* About section: NeuralNetworkScene (three-scenes.js) *)

\* const layers = [4, 6, 8, 6, 4], scaled down to keep the network small.
Layers == <<1, 2, 2, 2, 1>>

NoAbout ==
    [ container |-> FALSE, canvases |-> 0, camera |-> NoCamera, size |-> NoSize,
      nodes |-> <<>>, connections |-> <<>>, lights |-> 0,
      rotX |-> 0, rotY |-> 0,
      resizeListeners |-> 0, observers |-> 0,
      queue |-> 0, raf |-> 0, frames |-> 0, clockStart |-> 0,
      trace |-> <<>> ]

RECURSIVE LayerStart(_)
\* Number of nodes in the layers before layer l (0-based).
LayerStart(l) == IF l = 0 THEN 0 ELSE LayerStart(l - 1) + Layers[l]

RECURSIVE LayerOf(_, _)
\* The layer (0-based) of the k-th node (0-based), searching from layer l.
LayerOf(k, l) == IF k < LayerStart(l + 1) THEN l ELSE LayerOf(k, l + 1)

RECURSIVE Connect(_, _, _, _, _)
\* The connection loop: one Math.random() decides whether a pair is linked,
\* a second one draws the phase of a created line.
Connect(cands, k, s, colors, acc) ==
    IF cands = <<>> THEN acc
    ELSE IF Random(s, k + 1) > 300
    THEN Connect(Tail(cands), k + 2, s, colors,
                 Append(acc, [ from |-> Head(cands)[1], to |-> Head(cands)[2],
                               material |-> Material("LineBasicMaterial",
                                                     Get(colors, "primary"), 200),
                               phase |-> Mul(Random(s, k + 2), TwoPi) ]))
    ELSE Connect(Tail(cands), k + 1, s, colors, acc)

createNeuralNetwork(a, colors, s) ==
    LET count == LayerStart(Len(Layers))
        node(k) ==
            LET l == LayerOf(k, 0)
                i == k - LayerStart(l)
            IN  [ layer |-> l, index |-> i,
                  material |-> Material("MeshBasicMaterial",
                                        IF l = 0 \/ l = Len(Layers) - 1
                                        THEN Get(colors, "primary")
                                        ELSE Get(colors, "secondary"),
                                        800),
                  geometry |-> Geometry("Sphere", <<400, 16, 16>>),
                  x |-> (2 * l - (Len(Layers) - 1)) * 4000,
                  y |-> (2 * i - (Layers[l + 1] - 1)) * 2000,
                  scale |-> 1000,
                  phase |-> Mul(Random(s, k + 1), TwoPi) ]
        nodes == Loop(count, node)
        pairs == [k \in 1..(count * count) |->
                     <<((k - 1) \div count) + 1, ((k - 1) % count) + 1>>]
        Adjacent(pr) == nodes[pr[2]].layer = nodes[pr[1]].layer + 1
        conns == Connect(SelectSeq(pairs, Adjacent), count, s, colors, <<>>)
    IN  [ scene |-> [ a EXCEPT !.nodes = nodes, !.connections = conns ],
          draws |-> count + Len(SelectSeq(pairs, Adjacent)) + Len(conns) ]

AboutAnimate(a, t) ==
    [ Began(a) EXCEPT
        !.trace = @ \o <<"update", "render">>,
        !.nodes = [i \in DOMAIN @ |->
            LET n == a.nodes[i]
            IN  [ n EXCEPT
                    !.scale = 1000 + Mul(200, Sin(t * 200 + n.phase)),
                    !.material.opacity = 600 + Mul(400, Sin(t * 300 + n.phase)) ]],
        !.connections = [i \in DOMAIN @ |->
            LET c == a.connections[i]
            IN  [ c EXCEPT
                    !.material.opacity = 100 + Mul(200, Sin(t * 400 + c.phase)) ]],
        !.rotY = Sin(t * 30) * 2,
        !.rotX = Sin(t * 20),
        !.frames = @ + 1 ]

AboutUpdateColors(a, attr, s) ==
    LET theme  == getCurrentTheme(attr)
        colors == ThemeColors[theme]
    IN
    IF theme \notin DOMAIN ThemeColors
    THEN [ scene |-> a, rng |-> s, error |-> a.nodes # <<>> ]
    ELSE IF theme = "light"
    THEN
      [ scene |->
          [ a EXCEPT
              !.nodes = [i \in DOMAIN @ |->
                  LET n == a.nodes[i]
                  IN  [ n EXCEPT
                          !.material.color =
                              IF n.layer = 0 \/ n.layer = 4
                              THEN Get(colors, "depth2")
                              ELSE IF n.layer = 2 THEN Get(colors, "depth4")
                              ELSE Get(colors, "depth3"),
                          !.material.opacity = Get(colors, "solidOpacity") ]],
              !.connections = [i \in DOMAIN @ |->
                  [ a.connections[i] EXCEPT
                      !.material.color = Get(colors, "depth5"),
                      !.material.opacity = Scale(Get(colors, "lineOpacity"), 600) ]] ],
        rng |-> s, error |-> FALSE ]
    ELSE
      [ scene |->
          [ a EXCEPT
              !.nodes = [i \in DOMAIN @ |->
                  LET n == a.nodes[i]
                  IN  [ n EXCEPT
                          !.material.color =
                              IF n.layer = 0 \/ n.layer = 4
                              THEN Get(colors, "primary")
                              ELSE Get(colors, "secondary"),
                          !.material.opacity = 800 ]],
              !.connections = [i \in DOMAIN @ |->
                  [ a.connections[i] EXCEPT
                      !.material.color = Get(colors, "primary"),
                      !.material.opacity = 200 ]] ],
        rng |-> s, error |-> FALSE ]

-----------------------------------------------------------------------------
(* CTA section: FloatingParticlesScene (three-scenes.js) *)

NoCta ==
    [ container |-> FALSE, canvases |-> 0, camera |-> NoCamera, size |-> NoSize,
      particles |-> [exists |-> FALSE, material |-> NoMaterial,
                     rotX |-> 0, rotY |-> 0],
      positions |-> <<>>, vertexColors |-> <<>>,
      resizeListeners |-> 0, observers |-> 0,
      queue |-> 0, raf |-> 0, frames |-> 0, clockStart |-> 0,
      trace |-> <<>> ]

\* Math.random() calls per particle: x, y, z and the colour mix.
FloatDraws == 4

CtaCreateParticles(c, theme, colors, s) ==
    LET position(i) ==
            [ x |-> (Random(s, FloatDraws * i + 1) - 500) * 60,
              y |-> (Random(s, FloatDraws * i + 2) - 500) * 30,
              z |-> (Random(s, FloatDraws * i + 3) - 500) * 30 ]
        color(i) ==
            IF theme = "light"
            THEN [from |-> Get(colors, "depth3"), to |-> Get(colors, "depth5"),
                  ratio |-> Random(s, FloatDraws * i + 4)]
            ELSE [from |-> Get(colors, "primary"), to |-> Get(colors, "secondary"),
                  ratio |-> Random(s, FloatDraws * i + 4)]
    IN  [ c EXCEPT
            !.positions = Loop(FloatCount, position),
            !.vertexColors = Loop(FloatCount, color),
            !.particles = [exists |-> TRUE,
                           material |-> PointsMaterial(300, Get(colors, "particleOpacity")),
                           rotX |-> 0, rotY |-> 0] ]

CtaAnimate(c, t) ==
    [ Began(c) EXCEPT
        !.trace = @ \o <<"update", "render">>,
        !.particles = IF @.exists
                      THEN [@ EXCEPT !.rotY = t * 5, !.rotX = Sin(t * 10)]
                      ELSE @,
        !.frames = @ + 1 ]

CtaUpdateColors(c, attr, s) ==
    LET theme  == getCurrentTheme(attr)
        colors == ThemeColors[theme]
    IN
    IF ~c.particles.exists THEN [ scene |-> c, rng |-> s, error |-> FALSE ]
    ELSE IF theme \notin DOMAIN ThemeColors
    THEN [ scene |-> c, rng |-> s, error |-> TRUE ]
    ELSE
      [ scene |->
          [ c EXCEPT !.particles.material.opacity =
                IF theme = "light" THEN Scale(Get(colors, "particleOpacity"), 800)
                                   ELSE Get(colors, "particleOpacity") ],
        rng |-> s, error |-> FALSE ]

-----------------------------------------------------------------------------
(* Feature visual: FeatureQuantumScene (three-scenes.js) *)

NoFeat ==
    [ container |-> FALSE, canvases |-> 0, camera |-> NoCamera, size |-> NoSize,
      core |-> [exists |-> FALSE, material |-> NoMaterial,
                geometry |-> Geometry("none", <<>>), rotX |-> 0, rotY |-> 0],
      orbits |-> <<>>,
      resizeListeners |-> 0, observers |-> 0,
      queue |-> 0, raf |-> 0, frames |-> 0, clockStart |-> 0,
      trace |-> <<>> ]

createScene(f, colors) ==
    LET orbitColor(i) == IF i % 2 = 0 THEN Get(colors, "primary")
                                      ELSE Get(colors, "secondary")
        orbit(i) ==
            [ material |-> Material("MeshBasicMaterial", orbitColor(i), 500),
              geometry |-> Geometry("Torus", <<2000 + i * 800, 20, 8, 64>>),
              rotX |-> 15708 + i * 4000, rotY |-> i * 3000, rotZ |-> 0,
              electron |-> Material("MeshBasicMaterial", orbitColor(i), 1000),
              electronX |-> 2000 + i * 800 ]
    IN  [ f EXCEPT
            !.core = [exists |-> TRUE,
                      material |-> Material("MeshBasicMaterial",
                                            Get(colors, "primary"), 800),
                      geometry |-> Geometry("Icosahedron", <<1000, 1>>),
                      rotX |-> 0, rotY |-> 0],
            !.orbits = Loop(3, orbit) ]

FeatAnimate(f, t) ==
    [ Began(f) EXCEPT
        !.trace = @ \o <<"update", "render">>,
        !.core = IF @.exists THEN [@ EXCEPT !.rotX = t * 50, !.rotY = t * 30]
                             ELSE @,
        !.orbits = [i \in DOMAIN @ |->
            [ f.orbits[i] EXCEPT !.rotZ = t * (100 + (i - 1) * 50) ]],
        !.frames = @ + 1 ]

FeatUpdateColors(f, attr, s) ==
    LET theme  == getCurrentTheme(attr)
        colors == ThemeColors[theme]
        depth(i) == <<Get(colors, "depth2"), Get(colors, "depth3"),
                      Get(colors, "depth4")>>[((i - 1) % 3) + 1]
        plain(i) == IF (i - 1) % 2 = 0 THEN Get(colors, "primary")
                                       ELSE Get(colors, "secondary")
    IN
    IF theme \notin DOMAIN ThemeColors
    THEN [ scene |-> f, rng |-> s, error |-> TRUE ]
    ELSE IF theme = "light"
    THEN
      [ scene |->
          [ f EXCEPT
              !.core.material = IF f.core.exists
                  THEN [@ EXCEPT !.color = Get(colors, "depth2"),
                                 !.opacity = Get(colors, "wireframeOpacity")]
                  ELSE @,
              !.orbits = [i \in DOMAIN @ |->
                  [ f.orbits[i] EXCEPT
                      !.material.color = depth(i),
                      !.material.opacity = 600,
                      !.electron.color = depth(i),
                      !.electron.opacity = Get(colors, "solidOpacity") ]] ],
        rng |-> s, error |-> FALSE ]
    ELSE
      [ scene |->
          [ f EXCEPT
              !.core.material = IF f.core.exists
                  THEN [@ EXCEPT !.color = Get(colors, "primary"), !.opacity = 800]
                  ELSE @,
              !.orbits = [i \in DOMAIN @ |->
                  [ f.orbits[i] EXCEPT
                      !.material.color = plain(i),
                      !.material.opacity = 500,
                      !.electron.color = plain(i) ]] ],
        rng |-> s, error |-> FALSE ]

-----------------------------------------------------------------------------
(* The revision src/unnamed/part_001: one colour scheme for both themes *)

ThemeColors_001 ==
    [ dark  |-> [ primary |-> \H0EA5E9, secondary |-> \H06B6D4,
                  highlight |-> \H14B8A6, background |-> \H1A1A25,
                  particleOpacity |-> 800, lineOpacity |-> 300,
                  glowOpacity |-> 900 ],
      light |-> [ primary |-> \H0284C7, secondary |-> \H0891B2,
                  highlight |-> \H0D9488, background |-> \HF0F2F5,
                  particleOpacity |-> 900, lineOpacity |-> 400,
                  glowOpacity |-> 700 ] ]

\* createParticles without a theme branch: the dark loop of three-scenes.js.
createParticles_001(h, colors, s) == createParticles(h, "dark", colors, s)

HeroUpdateColors_001(h, attr, s) ==
    LET theme  == getCurrentTheme(attr)
        colors == ThemeColors_001[theme]
    IN
    IF theme \notin DOMAIN ThemeColors_001
    THEN [ scene |-> h, rng |-> s, error |-> TRUE ]
    ELSE
      [ scene |->
          [ h EXCEPT
              !.core.material.color =
                  IF h.core.exists THEN Get(colors, "primary") ELSE @,
              !.innerCore.material.color =
                  IF h.innerCore.exists THEN Get(colors, "secondary") ELSE @,
              !.glowSphere.material = IF h.glowSphere.exists
                  THEN [@ EXCEPT !.color = Get(colors, "primary"),
                                 !.opacity = Get(colors, "glowOpacity")]
                  ELSE @,
              !.particleSystem.material.opacity =
                  IF h.particleSystem.exists THEN Get(colors, "particleOpacity")
                                             ELSE @,
              !.quantumOrbitals = [i \in DOMAIN @ |->
                  [ h.quantumOrbitals[i] EXCEPT
                      !.material.color =
                          <<Get(colors, "primary"), Get(colors, "secondary"),
                            Get(colors, "highlight")>>[((i - 1) % 3) + 1] ]],
              !.entanglementLines = [i \in DOMAIN @ |->
                  [ h.entanglementLines[i] EXCEPT
                      !.material.color =
                          IF Random(s, i) > 500 THEN Get(colors, "primary")
                                                ELSE Get(colors, "secondary") ]] ],
        rng |-> RngAt(s, Len(h.entanglementLines)), error |-> FALSE ]

TechUpdateColors_001(p, attr, s) ==
    LET theme  == getCurrentTheme(attr)
        colors == ThemeColors_001[theme]
    IN
    IF theme \notin DOMAIN ThemeColors_001
    THEN [ scene |-> p, rng |-> s, error |-> TRUE ]
    ELSE
      [ scene |->
          [ p EXCEPT
              !.gridHelper.material.color =
                  IF p.gridHelper.exists THEN Get(colors, "primary") ELSE @,
              !.qubits = [i \in DOMAIN @ |->
                  [ p.qubits[i] EXCEPT
                      !.mesh.color =
                          IF Random(s, i) > 500 THEN Get(colors, "primary")
                                                ELSE Get(colors, "secondary"),
                      !.ring.color = Get(colors, "primary") ]] ],
        rng |-> RngAt(s, Len(p.qubits)), error |-> FALSE ]

AboutUpdateColors_001(a, attr, s) ==
    LET theme  == getCurrentTheme(attr)
        colors == ThemeColors_001[theme]
    IN
    IF theme \notin DOMAIN ThemeColors_001
    THEN [ scene |-> a, rng |-> s, error |-> a.nodes # <<>> ]
    ELSE
      [ scene |->
          [ a EXCEPT
              !.nodes = [i \in DOMAIN @ |->
                  [ a.nodes[i] EXCEPT
                      !.material.color =
                          IF a.nodes[i].layer = 0 \/ a.nodes[i].layer = 4
                          THEN Get(colors, "primary")
                          ELSE Get(colors, "secondary") ]],
              !.connections = [i \in DOMAIN @ |->
                  [ a.connections[i] EXCEPT
                      !.material.color = Get(colors, "primary") ]] ],
        rng |-> s, error |-> FALSE ]

\* FloatingParticlesScene.createParticles without a theme branch.
CtaCreateParticles_001(c, colors, s) == CtaCreateParticles(c, "dark", colors, s)

CtaUpdateColors_001(c, attr, s) ==
    LET theme  == getCurrentTheme(attr)
        colors == ThemeColors_001[theme]
    IN
    IF ~c.particles.exists THEN [ scene |-> c, rng |-> s, error |-> FALSE ]
    ELSE IF theme \notin DOMAIN ThemeColors_001
    THEN [ scene |-> c, rng |-> s, error |-> TRUE ]
    ELSE
      [ scene |->
          [ c EXCEPT !.particles.material.opacity = Get(colors, "particleOpacity") ],
        rng |-> s, error |-> FALSE ]

FeatUpdateColors_001(f, attr, s) ==
    LET theme  == getCurrentTheme(attr)
        colors == ThemeColors_001[theme]
        plain(i) == IF (i - 1) % 2 = 0 THEN Get(colors, "primary")
                                       ELSE Get(colors, "secondary")
    IN
    IF theme \notin DOMAIN ThemeColors_001
    THEN [ scene |-> f, rng |-> s, error |-> TRUE ]
    ELSE
      [ scene |->
          [ f EXCEPT
              !.core.material.color =
                  IF f.core.exists THEN Get(colors, "primary") ELSE @,
              !.orbits = [i \in DOMAIN @ |->
                  [ f.orbits[i] EXCEPT
                      !.material.color = plain(i),
                      !.electron.color = plain(i) ]] ],
        rng |-> s, error |-> FALSE ]


-----------------------------------------------------------------------------
(* The revision src/unnamed/part_000: a multi-colour light theme *)

ThemeColors_000 ==
    [ dark  |-> [ primary |-> \H0EA5E9, secondary |-> \H06B6D4,
                  highlight |-> \H14B8A6, background |-> \H1A1A25,
                  particleOpacity |-> 800, lineOpacity |-> 300,
                  glowOpacity |-> 900 ],
      light |-> [ primary |-> \HFF006E, secondary |-> \H00D9FF,
                  highlight |-> \HFFB700, tertiary |-> \H8B5CF6,
                  quaternary |-> \H10B981, accent |-> \HFF5E5B,
                  gradientColors |-> <<\HFF006E, \H00D9FF, \HFFB700,
                                       \H8B5CF6, \H10B981>>,
                  background |-> \HFAFBFD,
                  particleOpacity |-> 950, lineOpacity |-> 600,
                  glowOpacity |-> 1000,
                  iridescent |-> TRUE, holographic |-> TRUE ] ]

\* colors.key is set (truthy).
Has(colors, key) == key \in DOMAIN colors

\* list[i % list.length], i counted from 0.
Pick(list, i) == list[(i % Len(list)) + 1]

createQuantumCore_000(h, theme, colors) ==
    [ h EXCEPT
        !.core = [exists |-> TRUE,
                  material |->
                      IF theme = "light"
                      THEN PhongMaterial(Get(colors, "primary"), 900,
                                         Get(colors, "primary"), 500)
                      ELSE Material("MeshBasicMaterial", Get(colors, "primary"), 800),
                  geometry |-> Geometry("Icosahedron", <<2000, 2>>),
                  rotX |-> 0, rotY |-> 0],
        !.innerCore = [exists |-> TRUE,
                  material |->
                      IF theme = "light"
                      THEN PhongMaterial(Get(colors, "secondary"), 800,
                                         Get(colors, "secondary"), 300)
                      ELSE Material("MeshBasicMaterial", Get(colors, "secondary"), 600),
                  geometry |-> Geometry("Icosahedron", <<1000, 1>>),
                  rotX |-> 0, rotY |-> 0],
        !.glowSphere = [exists |-> TRUE,
                  material |-> Material("MeshBasicMaterial",
                                        IF theme = "light"
                                        THEN Get(colors, "highlight")
                                        ELSE Get(colors, "primary"),
                                        Get(colors, "glowOpacity")),
                  geometry |-> Geometry("Sphere", <<500, 32, 32>>),
                  scale |-> 1000],
        !.lights = IF theme = "light" THEN 3 ELSE 0 ]

\* particleCount = theme === 'light' ? 800 : 500, on the model's scale.
ParticleCount_000(theme) ==
    IF theme = "light" THEN ParticleCount + 1 ELSE ParticleCount

ParticleDraws_000(theme, colors) ==
    IF theme = "light" /\ Has(colors, "gradientColors") THEN 9 ELSE 7

createParticles_000(h, theme, colors, s) ==
    LET count == ParticleCount_000(theme)
        n == 9
        grad == colors.gradientColors
        radius(i) == 8000 + Mul(Random(s, n * i + 1), 20000)
        theta(i)  == Mul(Random(s, n * i + 2), TwoPi)
        phi(i)    == Acos(2 * Random(s, n * i + 3) - 1000)
        colorIndex(i) == (Random(s, n * i + 4) * Len(grad)) \div 1000
        color(i)  == [ from |-> Pick(grad, colorIndex(i)),
                       to |-> Pick(grad, colorIndex(i) + 1),
                       ratio |-> Random(s, n * i + 5) ]
        particle(i) ==
            [ index |-> i, radius |-> radius(i), theta |-> theta(i),
              phi |-> phi(i),
              speed |-> 10 + Mul(Random(s, n * i + 7), 30),
              phaseOffset |-> Mul(Random(s, n * i + 8), TwoPi),
              colorShift |-> Mul(Random(s, n * i + 9), TwoPi) ]
        position(i) == Cartesian(radius(i), phi(i), theta(i))
        size(i) == Random(s, n * i + 6) * 3 + 1000
    IN  IF theme = "light" /\ Has(colors, "gradientColors")
        THEN [ h EXCEPT
                 !.particles = Loop(count, particle),
                 !.positions = Loop(count, position),
                 !.vertexColors = Loop(count, color),
                 !.sizes = Loop(count, size),
                 !.particleSystem =
                     [exists |-> TRUE,
                      material |-> PointsMaterial(150, Get(colors, "particleOpacity")),
                      rotY |-> 0] ]
        ELSE \* the dark loop, the one of three-scenes.js; count is ParticleCount
             createParticles(h, "dark", colors, s)

createOrbitalRings_000(h, theme, colors) ==
    LET ringCount == IF theme = "light" THEN 5 ELSE 3
        rainbow(i) ==
            LET ringColor == Pick(colors.gradientColors, i)
            IN  [ material |-> PhongMaterial(ringColor, 800, ringColor, 300),
                  geometry |-> Geometry("Torus", <<5000 + i * 2500, 50, 16, 100>>),
                  rotX |-> 15708 + i * 2500, rotY |-> i * 4000, rotZ |-> 0,
                  speedX |-> 20 * (i + 1), speedY |-> 30 * (ringCount - i),
                  speedZ |-> 25 * (i + 1) ]
        plain(i) ==
            [ material |-> Material("MeshBasicMaterial",
                                    <<Get(colors, "primary"), Get(colors, "secondary"),
                                      Get(colors, "highlight")>>[i + 1],
                                    400),
              geometry |-> Geometry("Torus", <<5000 + i * 3000, 20, 16, 100>>),
              rotX |-> 15708 + i * 3000, rotY |-> i * 5000, rotZ |-> 0,
              speedX |-> 10 * (i + 1), speedY |-> 20 * (ringCount - i),
              speedZ |-> 15 * (i + 1) ]
    IN  IF theme = "light" /\ Has(colors, "gradientColors")
        THEN [ h EXCEPT !.quantumOrbitals = Loop(ringCount, rainbow) ]
        ELSE [ h EXCEPT !.quantumOrbitals = Loop(ringCount, plain) ]

HeroUpdateColors_000(h, attr, s) ==
    LET theme  == getCurrentTheme(attr)
        colors == ThemeColors_000[theme]
        ringColors == IF Has(colors, "gradientColors") THEN colors.gradientColors
                      ELSE <<Get(colors, "primary"), Get(colors, "secondary"),
                             Get(colors, "highlight")>>
        lineColors == IF Has(colors, "gradientColors") THEN colors.gradientColors
                      ELSE <<Get(colors, "primary"), Get(colors, "secondary")>>
    IN
    IF theme \notin DOMAIN ThemeColors_000
    THEN [ scene |-> h, rng |-> s, error |-> TRUE ]
    ELSE IF theme = "light"
    THEN
      [ scene |->
          [ h EXCEPT
              !.core.material = IF h.core.exists
                  THEN [@ EXCEPT !.color = Get(colors, "primary"),
                                 !.emissive = Get(colors, "primary"),
                                 !.emissiveIntensity = 500]
                  ELSE @,
              !.innerCore.material = IF h.innerCore.exists
                  THEN [@ EXCEPT !.color = Get(colors, "secondary"),
                                 !.emissive = Get(colors, "secondary"),
                                 !.emissiveIntensity = 300]
                  ELSE @,
              !.glowSphere.material = IF h.glowSphere.exists
                  THEN [@ EXCEPT !.color = Get(colors, "highlight"),
                                 !.opacity = Get(colors, "glowOpacity")]
                  ELSE @,
              !.particleSystem.material = IF h.particleSystem.exists
                  THEN [@ EXCEPT !.opacity = Get(colors, "particleOpacity"),
                                 !.size = 250]
                  ELSE @,
              !.quantumOrbitals = [i \in DOMAIN @ |->
                  [ h.quantumOrbitals[i] EXCEPT
                      !.material.color = Pick(ringColors, i - 1),
                      !.material.emissive = Pick(ringColors, i - 1),
                      !.material.emissiveIntensity = 200,
                      !.material.opacity = 800 ]],
              !.entanglementLines = [i \in DOMAIN @ |->
                  [ h.entanglementLines[i] EXCEPT
                      !.material.color = Pick(lineColors, i - 1),
                      !.material.opacity = 500 ]] ],
        rng |-> s, error |-> FALSE ]
    ELSE
      [ scene |->
          [ h EXCEPT
              !.core.material.color =
                  IF h.core.exists THEN Get(colors, "primary") ELSE @,
              !.innerCore.material.color =
                  IF h.innerCore.exists THEN Get(colors, "secondary") ELSE @,
              !.glowSphere.material = IF h.glowSphere.exists
                  THEN [@ EXCEPT !.color = Get(colors, "primary"),
                                 !.opacity = Get(colors, "glowOpacity")]
                  ELSE @,
              !.particleSystem.material.opacity =
                  IF h.particleSystem.exists THEN Get(colors, "particleOpacity")
                                             ELSE @,
              !.quantumOrbitals = [i \in DOMAIN @ |->
                  [ h.quantumOrbitals[i] EXCEPT
                      !.material.color =
                          <<Get(colors, "primary"), Get(colors, "secondary"),
                            Get(colors, "highlight")>>[((i - 1) % 3) + 1],
                      !.material.opacity = 400 ]],
              !.entanglementLines = [i \in DOMAIN @ |->
                  [ h.entanglementLines[i] EXCEPT
                      !.material.color =
                          IF Random(s, i) > 500 THEN Get(colors, "primary")
                                                ELSE Get(colors, "secondary"),
                      !.material.opacity = 200 ]] ],
        rng |-> RngAt(s, Len(h.entanglementLines)), error |-> FALSE ]


createQubits_000(p, theme, colors, s) ==
    LET side == 2 * GridHalf + 1
        vivid == theme = "light" /\ Has(colors, "gradientColors")
        n == IF vivid THEN 2 ELSE 3
        qubitColor(i) == Pick(colors.gradientColors, i)
        qubit(i) ==
            [ mesh |-> IF vivid
                       THEN PhongMaterial(qubitColor(i), 950, qubitColor(i), 400)
                       ELSE Material("MeshBasicMaterial",
                                     IF Random(s, n * i + 1) > 500
                                     THEN Get(colors, "primary")
                                     ELSE Get(colors, "secondary"),
                                     900),
              ring |-> IF vivid
                       THEN PhongMaterial(qubitColor(i), 800, qubitColor(i), 300)
                       ELSE Material("MeshBasicMaterial", Get(colors, "primary"), 500),
              geometry |-> IF theme = "light" THEN Geometry("Sphere", <<400, 32, 32>>)
                                              ELSE Geometry("Sphere", <<300, 16, 16>>),
              ringGeometry |-> IF theme = "light"
                               THEN Geometry("Torus", <<600, 30, 16, 64>>)
                               ELSE Geometry("Torus", <<500, 20, 8, 32>>),
              x |-> ((i \div side) - GridHalf) * Spacing,
              y |-> 0,
              z |-> ((i % side) - GridHalf) * Spacing,
              scale |-> 1000, ringRotX |-> 15708, ringRotZ |-> 0,
              baseY |-> 0,
              phase |-> Mul(Random(s, n * i + n - 1), TwoPi),
              frequency |-> 1000 + Random(s, n * i + n) ]
    IN  [ scene |-> [ p EXCEPT !.qubits = Loop(side * side, qubit),
                               !.lights = IF theme = "light" THEN 2 ELSE 0 ],
          draws |-> side * side * n ]

TechUpdateColors_000(p, attr, s) ==
    LET theme  == getCurrentTheme(attr)
        colors == ThemeColors_000[theme]
        grid ==
            IF ~p.gridHelper.exists THEN p.gridHelper
            ELSE IF theme = "light"
            THEN [ p.gridHelper EXCEPT
                     !.material.color = IF Has(colors, "tertiary")
                                        THEN colors.tertiary
                                        ELSE Get(colors, "primary"),
                     !.material.opacity = 400 ]
            ELSE [ p.gridHelper EXCEPT !.material.color = Get(colors, "primary"),
                                       !.material.opacity = 300 ]
    IN
    IF theme \notin DOMAIN ThemeColors_000
    THEN [ scene |-> p, rng |-> s, error |-> TRUE ]
    ELSE IF theme = "light" /\ Has(colors, "gradientColors")
    THEN
      [ scene |->
          [ p EXCEPT
              !.gridHelper = grid,
              !.qubits = [i \in DOMAIN @ |->
                  LET q == p.qubits[i]
                      qubitColor == Pick(colors.gradientColors, i - 1)
                  IN  [ q EXCEPT
                          !.mesh.color = qubitColor,
                          !.mesh.emissive =
                              IF @ # Undefined THEN qubitColor ELSE @,
                          !.mesh.emissiveIntensity =
                              IF q.mesh.emissive # Undefined THEN 400 ELSE @,
                          !.ring.color = qubitColor,
                          !.ring.opacity = 800 ]] ],
        rng |-> s, error |-> FALSE ]
    ELSE
      [ scene |->
          [ p EXCEPT
              !.gridHelper = grid,
              !.qubits = [i \in DOMAIN @ |->
                  [ p.qubits[i] EXCEPT
                      !.mesh.color =
                          IF Random(s, i) > 500 THEN Get(colors, "primary")
                                                ELSE Get(colors, "secondary"),
                      !.ring.color = Get(colors, "primary") ]] ],
        rng |-> RngAt(s, Len(p.qubits)), error |-> FALSE ]

\* createNeuralNetwork of part_000: the positions, phases and connections of
\* three-scenes.js; the light theme changes node material and geometry and
\* adds two lights.
createNeuralNetwork_000(a, theme, colors, s) ==
    LET made == createNeuralNetwork(a, colors, s)
        node(k) ==
            LET n == made.scene.nodes[k]
                nodeColor == Pick(colors.gradientColors, n.layer + n.index)
            IN  [ n EXCEPT
                    !.material = PhongMaterial(nodeColor, 900, nodeColor, 300),
                    !.geometry = Geometry("Sphere", <<500, 32, 32>>) ]
    IN  IF theme = "light" /\ Has(colors, "gradientColors")
        THEN [ scene |-> [ made.scene EXCEPT
                             !.nodes = [k \in DOMAIN @ |-> node(k)],
                             !.lights = 2 ],
               draws |-> made.draws ]
        ELSE made

AboutUpdateColors_000(a, attr, s) ==
    LET theme  == getCurrentTheme(attr)
        colors == ThemeColors_000[theme]
    IN
    IF theme \notin DOMAIN ThemeColors_000
    THEN [ scene |-> a, rng |-> s, error |-> a.nodes # <<>> ]
    ELSE IF theme = "light" /\ Has(colors, "gradientColors")
    THEN
      [ scene |->
          [ a EXCEPT
              !.nodes = [i \in DOMAIN @ |->
                  LET n == a.nodes[i]
                      nodeColor == Pick(colors.gradientColors, n.layer + n.index)
                  IN  [ n EXCEPT
                          !.material.color = nodeColor,
                          !.material.emissive =
                              IF @ # Undefined THEN nodeColor ELSE @,
                          !.material.emissiveIntensity =
                              IF n.material.emissive # Undefined THEN 300 ELSE @ ]],
              !.connections = [i \in DOMAIN @ |->
                  [ a.connections[i] EXCEPT
                      !.material.color = Pick(colors.gradientColors, i - 1),
                      !.material.opacity = 400 ]] ],
        rng |-> s, error |-> FALSE ]
    ELSE
      [ scene |->
          [ a EXCEPT
              !.nodes = [i \in DOMAIN @ |->
                  [ a.nodes[i] EXCEPT
                      !.material.color =
                          IF a.nodes[i].layer = 0 \/ a.nodes[i].layer = 4
                          THEN Get(colors, "primary")
                          ELSE Get(colors, "secondary") ]],
              !.connections = [i \in DOMAIN @ |->
                  [ a.connections[i] EXCEPT
                      !.material.color = Get(colors, "primary") ]] ],
        rng |-> s, error |-> FALSE ]

CtaUpdateColors_000(c, attr, s) ==
    LET theme  == getCurrentTheme(attr)
        colors == ThemeColors_000[theme]
    IN
    IF ~c.particles.exists THEN [ scene |-> c, rng |-> s, error |-> FALSE ]
    ELSE IF theme \notin DOMAIN ThemeColors_000
    THEN [ scene |-> c, rng |-> s, error |-> TRUE ]
    ELSE
      [ scene |->
          [ c EXCEPT !.particles.material.opacity = Get(colors, "particleOpacity") ],
        rng |-> s, error |-> FALSE ]

FeatUpdateColors_000(f, attr, s) ==
    LET theme  == getCurrentTheme(attr)
        colors == ThemeColors_000[theme]
        plain(i) == IF (i - 1) % 2 = 0 THEN Get(colors, "primary")
                                       ELSE Get(colors, "secondary")
    IN
    IF theme \notin DOMAIN ThemeColors_000
    THEN [ scene |-> f, rng |-> s, error |-> TRUE ]
    ELSE
      [ scene |->
          [ f EXCEPT
              !.core.material.color =
                  IF f.core.exists THEN Get(colors, "primary") ELSE @,
              !.orbits = [i \in DOMAIN @ |->
                  [ f.orbits[i] EXCEPT
                      !.material.color = plain(i),
                      !.electron.color = plain(i) ]] ],
        rng |-> s, error |-> FALSE ]


-----------------------------------------------------------------------------
(* The five constructors, for each revision of the scene script *)

\* The ThemeColors table getThemeColors reads in the given revision.
Palette(scr) ==
    CASE scr = "part_000" -> ThemeColors_000
      [] scr = "part_001" -> ThemeColors_001
      [] OTHER            -> ThemeColors

\* new QuantumHeroScene('hero-canvas') at time t with generator state s.
\* An unknown theme has no palette: colors is undefined and the first
\* colors.primary, in createQuantumCore, throws out of the constructor.
QuantumHeroScene(scr, present, attr, size, s, t) ==
    LET theme  == getCurrentTheme(attr)
        h0     == Construct(NoHero, 75, size, 30000, t)
    IN
    IF ~present THEN Absent(NoHero, s)
    ELSE IF theme \notin DOMAIN Palette(scr)
    THEN [ scene |-> h0, rng |-> s, error |-> TRUE ]
    ELSE
      LET colors == Palette(scr)[theme]
          draws == CASE scr = "part_000" ->
                          ParticleCount_000(theme) * ParticleDraws_000(theme, colors)
                     [] scr = "part_001" -> ParticleCount * ParticleDraws("dark")
                     [] OTHER -> ParticleCount * ParticleDraws(theme)
          s1 == RngAt(s, draws)
          h1 == IF scr = "part_000" THEN createQuantumCore_000(h0, theme, colors)
                                    ELSE createQuantumCore(h0, colors)
          h2 == CASE scr = "part_000" -> createParticles_000(h1, theme, colors, s)
                  [] scr = "part_001" -> createParticles_001(h1, colors, s)
                  [] OTHER -> createParticles(h1, theme, colors, s)
          h3 == IF scr = "part_000" THEN createOrbitalRings_000(h2, theme, colors)
                                    ELSE createOrbitalRings(h2, colors)
          h4 == createEntanglementLines(h3, colors, s1)
          h5 == [ addResizeListener(h4) EXCEPT !.mouseListeners = @ + 1 ]
          h6 == setupThemeObserver(h5)
      IN  [ scene |-> HeroAnimate(h6, 0),
            rng |-> RngAt(s1, LineCount * LineDraws),
            error |-> FALSE ]

\* new QuantumProcessorScene('tech-canvas')
QuantumProcessorScene(scr, present, attr, size, s, t) ==
    LET theme == getCurrentTheme(attr)
        p0    == [ Construct(NoTech, 60, size, 25000, t) EXCEPT !.camera.y = 15000 ]
    IN
    IF ~present THEN Absent(NoTech, s)
    ELSE IF theme \notin DOMAIN Palette(scr)
    THEN [ scene |-> p0, rng |-> s, error |-> TRUE ]
    ELSE
      LET colors == Palette(scr)[theme]
          p1 == createQuantumGrid(p0, theme, colors)
          made == IF scr = "part_000" THEN createQubits_000(p1, theme, colors, s)
                  ELSE [ scene |-> createQubits(p1, colors, s),
                         draws |-> (2 * GridHalf + 1) * (2 * GridHalf + 1)
                                       * QubitDraws ]
          p3 == createConnections(made.scene, colors)
          p4 == setupThemeObserver(addResizeListener(p3))
      IN  [ scene |-> TechAnimate(p4, 0),
            rng |-> RngAt(s, made.draws),
            error |-> FALSE ]

\* new NeuralNetworkScene('about-canvas')
NeuralNetworkScene(scr, present, attr, size, s, t) ==
    LET theme == getCurrentTheme(attr)
        a0    == Construct(NoAbout, 60, size, 40000, t)
    IN
    IF ~present THEN Absent(NoAbout, s)
    ELSE IF theme \notin DOMAIN Palette(scr)
    THEN [ scene |-> a0, rng |-> s, error |-> TRUE ]
    ELSE
      LET colors == Palette(scr)[theme]
          made == IF scr = "part_000"
                  THEN createNeuralNetwork_000(a0, theme, colors, s)
                  ELSE createNeuralNetwork(a0, colors, s)
          a1   == setupThemeObserver(addResizeListener(made.scene))
      IN  [ scene |-> AboutAnimate(a1, 0),
            rng |-> RngAt(s, made.draws),
            error |-> FALSE ]

\* new FloatingParticlesScene('cta-canvas')
FloatingParticlesScene(scr, present, attr, size, s, t) ==
    LET theme == getCurrentTheme(attr)
        c0    == Construct(NoCta, 75, size, 30000, t)
    IN
    IF ~present THEN Absent(NoCta, s)
    ELSE IF theme \notin DOMAIN Palette(scr)
    THEN [ scene |-> c0, rng |-> s, error |-> TRUE ]
    ELSE
      LET colors == Palette(scr)[theme]
          c1 == IF scr = "three-scenes.js"
                THEN CtaCreateParticles(c0, theme, colors, s)
                ELSE CtaCreateParticles_001(c0, colors, s)
          c2 == setupThemeObserver(addResizeListener(c1))
      IN  [ scene |-> CtaAnimate(c2, 0),
            rng |-> RngAt(s, FloatCount * FloatDraws),
            error |-> FALSE ]

\* new FeatureQuantumScene('feature-visual-1')
FeatureQuantumScene(scr, present, attr, size, s, t) ==
    LET theme == getCurrentTheme(attr)
        f0    == Construct(NoFeat, 60, size, 10000, t)
    IN
    IF ~present THEN Absent(NoFeat, s)
    ELSE IF theme \notin DOMAIN Palette(scr)
    THEN [ scene |-> f0, rng |-> s, error |-> TRUE ]
    ELSE
      LET f1 == createScene(f0, Palette(scr)[theme])
          f2 == setupThemeObserver(addResizeListener(f1))
      IN  [ scene |-> FeatAnimate(f2, 0), rng |-> s, error |-> FALSE ]


-----------------------------------------------------------------------------
(* The theme flag: initTheme (main.js) *)

\* localStorage.getItem('theme') without the default.
savedTheme_Raw(stored) == stored

\* An initTheme that ignores the saved preference.
savedTheme_Ignored(stored) == "dark"

\* const savedTheme = localStorage.getItem('theme') || 'dark'
savedTheme(stored) == IF stored = NoValue \/ stored = "" THEN "dark" ELSE stored

\* A toggle that treats an unrecognised value as dark.
newTheme_Lenient(currentTheme) ==
    IF currentTheme = "light" THEN "dark" ELSE "light"

\* const newTheme = currentTheme === 'dark' ? 'light' : 'dark'
newTheme(currentTheme) == IF currentTheme = "dark" THEN "light" ELSE "dark"

-----------------------------------------------------------------------------
(* The page script js/main.js: preloader, navigation, mobile menu, smooth  *)
(* scroll and scroll effects.  Times are in milliseconds, scroll positions  *)
(* in pixels.                                                                *)

FallbackDelay == 3000   \* setTimeout(..., 3000) in initPreloader
HideDelay == 1000       \* setTimeout(..., 1000) after the load event
RemoveDelay == 500      \* setTimeout(..., 500) after the preloader is hidden

\* The elements of the document that main.js looks up.
MainElements ==
    {"preloader", "navbar", "mobile-menu-btn", "mobile-menu", "mobile-link",
     "hero-scroll", "nav-link", "about"}

\* The documents main.js is loaded into: the home page, an empty page, and
\* the home page without one of the elements an initializer targets.
MainPages ==
    { MainElements, {},
      MainElements \ {"preloader"}, MainElements \ {"navbar"},
      MainElements \ {"mobile-menu"}, MainElements \ {"hero-scroll"} }

\* Scroll positions of the window, and the extent of section #about.
ScrollPositions == {0, 100, 300}
AboutTop == 200
AboutHeight == 400
NavbarHeight == 80      \* offsetHeight of .navbar

\* The document and main.js before DOMContentLoaded.
Unloaded(els) ==
    [ elements |-> els,          \* elements in the document at load
      listeners |-> {},          \* listeners main.js has registered
      timers |-> {},             \* pending setTimeout callbacks
      clock |-> 0,               \* time since DOMContentLoaded
      loadFired |-> FALSE,       \* the window load event was dispatched
      preloaderHidden |-> FALSE, \* #preloader has the class hidden
      preloaderRemoved |-> FALSE,\* #preloader was removed from the document
      overflow |-> "",           \* document.body.style.overflow
      scrollY |-> 0, lastScrollY |-> 0, ticking |-> FALSE,
      navFrames |-> 0,           \* pending requestAnimationFrame(updateNavbar)
      navScrolled |-> FALSE,     \* .navbar has the class scrolled
      navTransform |-> "",       \* .navbar style.transform
      activeLink |-> FALSE,      \* the link to #about has the class active
      menuBtnActive |-> FALSE, mobileMenuActive |-> FALSE,
      bodyMenuOpen |-> FALSE,
      indicatorOpacity |-> Undefined,   \* .hero-scroll style.opacity
      heroTransform |-> Undefined,      \* #hero-canvas translateY, pixels
      scrollTarget |-> Undefined,       \* top of the last window.scrollTo
      konamiIndex |-> 0,         \* let konamiIndex
      quantumMode |-> 0,         \* calls of activateQuantumMode so far
      keys |-> <<>>,             \* the keys pressed so far, oldest first
      typing |-> <<>>,           \* the keys the visitor goes on to press
      counters |-> <<>>,         \* the .stat-number elements (animations.js)
      error |-> FALSE ]          \* the handler that ran last threw

Timer(name, due) == [ name |-> name, due |-> due ]

\* initPreloader: no element is dereferenced at initialisation.
\* An initPreloader without the fallback timer.
initPreloader_NoFallback(m) == [ m EXCEPT !.listeners = @ \cup {"load"} ]

initPreloader(m) ==
    [ m EXCEPT !.listeners = @ \cup {"load"},
               !.timers = @ \cup {Timer("fallback", m.clock + FallbackDelay)} ]

\* initNavigation: the two scroll listeners.
initNavigation(m) ==
    [ m EXCEPT !.lastScrollY = m.scrollY, !.ticking = FALSE,
               !.listeners = @ \cup {"scroll:updateNavbar", "scroll:setActiveLink"} ]

\* initMobileMenu: returns early unless both elements exist.
initMobileMenu(m) ==
    IF "mobile-menu-btn" \notin m.elements \/ "mobile-menu" \notin m.elements
    THEN m
    ELSE [ m EXCEPT !.listeners =
             @ \cup {"click:menuBtn", "keydown:escape"}
               \cup (IF "mobile-link" \in m.elements THEN {"click:mobileLink"}
                                                    ELSE {}) ]

\* initSmoothScroll: a click listener on every a[href^="#"].
initSmoothScroll(m) ==
    IF "nav-link" \in m.elements
    THEN [ m EXCEPT !.listeners = @ \cup {"click:anchor"} ]
    ELSE m

\* initScrollEffects: both listeners are registered only for an element that
\* exists.
initScrollEffects(m, heroCanvas) ==
    [ m EXCEPT !.listeners =
        @ \cup (IF "hero-scroll" \in m.elements THEN {"scroll:indicator"} ELSE {})
          \cup (IF heroCanvas THEN {"scroll:parallax"} ELSE {}) ]

\* The initializers the DOMContentLoaded listener calls after initTheme.
InitPage(m, heroCanvas) ==
    initScrollEffects(
        initSmoothScroll(initMobileMenu(initNavigation(initPreloader(m)))),
        heroCanvas)

\* The load listener: hide the preloader a second later.
OnLoad(m) ==
    [ m EXCEPT !.loadFired = TRUE, !.error = FALSE,
               !.timers = @ \cup {Timer("hide", m.clock + HideDelay)} ]

\* The timer callbacks of initPreloader.  The callback set at load time
\* dereferences preloader without a test; the fallback tests it.
OnTimer(m, tm) ==
    LET rest == [ m EXCEPT !.timers = @ \ {tm}, !.error = FALSE ]
    IN  CASE tm.name = "hide" ->
                 IF "preloader" \notin m.elements
                 THEN [ rest EXCEPT !.error = TRUE ]
                 ELSE [ rest EXCEPT
                          !.preloaderHidden = TRUE, !.overflow = "visible",
                          !.timers = @ \cup {Timer("remove", m.clock + RemoveDelay)} ]
          [] tm.name = "remove" -> [ rest EXCEPT !.preloaderRemoved = TRUE ]
          [] OTHER ->
                 IF "preloader" \in m.elements /\ ~m.preloaderHidden
                 THEN [ rest EXCEPT !.preloaderHidden = TRUE,
                                    !.overflow = "visible" ]
                 ELSE rest

\* The scroll listeners, in the order they were registered, at position y.
OnScroll(m, y) ==
    LET m0 == [ m EXCEPT !.scrollY = y, !.error = FALSE ]
        m1 == IF "scroll:updateNavbar" \in m.listeners /\ ~m0.ticking
              THEN [ m0 EXCEPT !.navFrames = @ + 1, !.ticking = TRUE ]
              ELSE m0
        inAbout == y >= AboutTop - 100 /\ y < AboutTop - 100 + AboutHeight
        m2 == IF "scroll:setActiveLink" \in m.listeners
                  /\ "about" \in m.elements /\ "nav-link" \in m.elements
                  /\ inAbout
              THEN [ m1 EXCEPT !.activeLink = TRUE ]
              ELSE m1
        m3 == IF "scroll:indicator" \in m.listeners
              THEN [ m2 EXCEPT !.indicatorOpacity =
                        IF y >= 300 THEN 0 ELSE 1000 - (y * 1000) \div 300 ]
              ELSE m2
    IN  IF "scroll:parallax" \in m.listeners
        THEN [ m3 EXCEPT !.heroTransform = (y * 3) \div 10 ]
        ELSE m3

\* updateNavbar, run as an animation-frame callback.  navbar.classList is
\* read without a test: with no .navbar it throws before ticking is reset.
updateNavbar(m) ==
    LET m0 == [ m EXCEPT !.navFrames = @ - 1, !.error = FALSE ]
    IN  IF "navbar" \notin m.elements
        THEN [ m0 EXCEPT !.error = TRUE ]
        ELSE [ m0 EXCEPT
                 !.navScrolled = m.scrollY > 50,
                 !.navTransform =
                     IF m.scrollY > m.lastScrollY /\ m.scrollY > 200
                     THEN "translateY(-100%)" ELSE "translateY(0)",
                 !.lastScrollY = m.scrollY,
                 !.ticking = FALSE ]

\* A toggleMenu that leaves the body's class alone.
toggleMenu_NoBody(m) ==
    [ m EXCEPT !.menuBtnActive = ~@, !.mobileMenuActive = ~@, !.error = FALSE ]

\* toggleMenu
toggleMenu(m) ==
    [ m EXCEPT !.menuBtnActive = ~@, !.mobileMenuActive = ~@,
               !.bodyMenuOpen = ~@, !.error = FALSE ]

\* The click listener of a mobile link.
OnMobileLink(m) ==
    [ m EXCEPT !.menuBtnActive = FALSE, !.mobileMenuActive = FALSE,
               !.bodyMenuOpen = FALSE, !.error = FALSE ]

\* The keydown listener of initMobileMenu, for the Escape key.
OnEscape(m) ==
    IF m.mobileMenuActive THEN toggleMenu(m) ELSE [ m EXCEPT !.error = FALSE ]

\* The click listener of the link to #about: document.querySelector('.navbar')
\* is dereferenced without a test.
OnAnchor(m) ==
    LET m0 == [ m EXCEPT !.error = FALSE ]
    IN  IF "about" \notin m.elements THEN m0
        ELSE IF "navbar" \notin m.elements THEN [ m0 EXCEPT !.error = TRUE ]
        ELSE [ m0 EXCEPT !.scrollTarget = AboutTop - NavbarHeight ]

\* The Konami code and its keydown listener (registered when the script runs).
konamiCode ==
    <<"ArrowUp", "ArrowUp", "ArrowDown", "ArrowDown", "ArrowLeft",
      "ArrowRight", "ArrowLeft", "ArrowRight", "b", "a">>

OnKeyDown(m, key) ==
    LET i == IF key = konamiCode[m.konamiIndex + 1] THEN m.konamiIndex + 1
             ELSE 0
    IN  [ m EXCEPT !.keys = Append(@, key), !.error = FALSE,
                   !.konamiIndex = IF i = Len(konamiCode) THEN 0 ELSE i,
                   !.quantumMode = IF i = Len(konamiCode) THEN @ + 1 ELSE @ ]

\* The exception a handler of main.js left uncaught.
MainThrown(m) == IF m.error THEN {"TypeError"} ELSE {}

-----------------------------------------------------------------------------

(* Theme observers *)

updateColors(scr, id, sc, attr, s) ==
    CASE id = "hero-canvas" ->
           (CASE scr = "part_000" -> HeroUpdateColors_000(sc, attr, s)
              [] scr = "part_001" -> HeroUpdateColors_001(sc, attr, s)
              [] OTHER -> HeroUpdateColors(sc, attr, s))
      [] id = "tech-canvas" ->
           (CASE scr = "part_000" -> TechUpdateColors_000(sc, attr, s)
              [] scr = "part_001" -> TechUpdateColors_001(sc, attr, s)
              [] OTHER -> TechUpdateColors(sc, attr, s))
      [] id = "about-canvas" ->
           (CASE scr = "part_000" -> AboutUpdateColors_000(sc, attr, s)
              [] scr = "part_001" -> AboutUpdateColors_001(sc, attr, s)
              [] OTHER -> AboutUpdateColors(sc, attr, s))
      [] id = "cta-canvas" ->
           (CASE scr = "part_000" -> CtaUpdateColors_000(sc, attr, s)
              [] scr = "part_001" -> CtaUpdateColors_001(sc, attr, s)
              [] OTHER -> CtaUpdateColors(sc, attr, s))
      [] OTHER ->
           (CASE scr = "part_000" -> FeatUpdateColors_000(sc, attr, s)
              [] scr = "part_001" -> FeatUpdateColors_001(sc, attr, s)
              [] OTHER -> FeatUpdateColors(sc, attr, s))

\* html.setAttribute('data-theme', ...): every observer of the root gets a
\* mutation record, whether or not the value changed.
Mutated(sc) == [ sc EXCEPT !.queue = @ + sc.observers ]

\* The MutationObserver callback of one scene: updateColors once per queued
\* record; an exception ends the forEach and leaves the callback.
ObserverCallback(scr, id, sc, attr, s) ==
    LET run[k \in 0..sc.queue] ==
            IF k = 0 THEN [ scene |-> sc, rng |-> s, error |-> FALSE ]
            ELSE IF run[k - 1].error THEN run[k - 1]
            ELSE updateColors(scr, id, run[k - 1].scene, attr, run[k - 1].rng)
        done == run[sc.queue]
    IN  [ done EXCEPT !.scene.queue = 0 ]

Pending == hero.queue + tech.queue + about.queue + cta.queue + feat.queue > 0

Thrown(errors) == IF TRUE \in errors THEN {"TypeError"} ELSE {}

-----------------------------------------------------------------------------
(* The page *)

\* A freshly loaded document, before any script has run.
Start ==
    /\ script \in Scripts
    /\ containers \in Pages
    /\ hasToggle \in BOOLEAN
    /\ dataTheme = NoValue
    /\ mainLoaded = FALSE
    /\ scenesLoaded = FALSE
    /\ rng \in 0..(NumSeeds - 1)
    /\ now = 0
    /\ viewport = [w |-> 800, h |-> 600]
    /\ clicks = 0
    /\ loads = 1
    /\ hero = NoHero
    /\ tech = NoTech
    /\ about = NoAbout
    /\ cta = NoCta
    /\ feat = NoFeat
    /\ main = Unloaded(MainElements)
    /\ uncaught = {}

\* The first visit: nothing is stored yet.
Init == Start /\ localStorage = NoValue

\* main.js, DOMContentLoaded: initTheme, then the other initializers.
MainDOMContentLoaded ==
    /\ ~mainLoaded
    /\ ~Pending
    /\ mainLoaded' = TRUE
    /\ dataTheme' = savedTheme(localStorage)
    /\ hero' = Mutated(hero)
    /\ tech' = Mutated(tech)
    /\ about' = Mutated(about)
    /\ cta' = Mutated(cta)
    /\ feat' = Mutated(feat)
    /\ main' = InitPage(main, "hero-canvas" \in containers)
    /\ UNCHANGED <<pageVars, localStorage, scenesLoaded, rng, now, viewport,
                   clicks, loads, uncaught>>

\* The scene script, DOMContentLoaded: the five constructors in order; an
\* exception in one of them ends the listener.
ScenesDOMContentLoaded ==
    /\ ~scenesLoaded
    /\ ~Pending
    /\ \E h \in { QuantumHeroScene(script, "hero-canvas" \in containers,
                                    dataTheme, viewport, rng, now) } :
       \E p \in { QuantumProcessorScene(script, "tech-canvas" \in containers,
                                         dataTheme, viewport, h.rng, now) } :
       \E a \in { NeuralNetworkScene(script, "about-canvas" \in containers,
                                      dataTheme, viewport, p.rng, now) } :
       \E c \in { FloatingParticlesScene(script, "cta-canvas" \in containers,
                                          dataTheme, viewport, a.rng, now) } :
       \E f \in { FeatureQuantumScene(script, "feature-visual-1" \in containers,
                                       dataTheme, viewport, c.rng, now) } :
           /\ hero' = h.scene
           /\ tech' = IF h.error THEN tech ELSE p.scene
           /\ about' = IF h.error \/ p.error THEN about ELSE a.scene
           /\ cta' = IF h.error \/ p.error \/ a.error THEN cta ELSE c.scene
           /\ feat' = IF h.error \/ p.error \/ a.error \/ c.error THEN feat
                                                                   ELSE f.scene
           /\ rng' = f.rng
           /\ uncaught' = uncaught \cup
                  Thrown({h.error, p.error, a.error, c.error, f.error})
    /\ scenesLoaded' = TRUE
    /\ UNCHANGED <<pageVars, localStorage, dataTheme, mainLoaded, now, viewport,
                   clicks, loads, main>>

\* The microtask that delivers the mutation records: the observers' callbacks
\* in the order the observers were created.
Notify ==
    /\ Pending
    /\ \E h \in { ObserverCallback(script, "hero-canvas", hero, dataTheme, rng) } :
       \E p \in { ObserverCallback(script, "tech-canvas", tech, dataTheme, h.rng) } :
       \E a \in { ObserverCallback(script, "about-canvas", about, dataTheme, p.rng) } :
       \E c \in { ObserverCallback(script, "cta-canvas", cta, dataTheme, a.rng) } :
       \E f \in { ObserverCallback(script, "feature-visual-1", feat, dataTheme,
                                     c.rng) } :
           /\ hero' = h.scene
           /\ tech' = p.scene
           /\ about' = a.scene
           /\ cta' = c.scene
           /\ feat' = f.scene
           /\ rng' = f.rng
           /\ uncaught' = uncaught \cup
                  Thrown({h.error, p.error, a.error, c.error, f.error})
    /\ UNCHANGED <<pageVars, localStorage, dataTheme, mainLoaded, scenesLoaded,
                   now, viewport, clicks, loads, main>>

Loaded == mainLoaded /\ scenesLoaded /\ ~Pending

\* A click on #theme-toggle.
Click ==
    /\ Loaded
    /\ hasToggle
    /\ clicks < MaxClicks
    /\ clicks' = clicks + 1
    /\ dataTheme' = newTheme(dataTheme)
    /\ localStorage' = newTheme(dataTheme)
    /\ hero' = Mutated(hero)
    /\ tech' = Mutated(tech)
    /\ about' = Mutated(about)
    /\ cta' = Mutated(cta)
    /\ feat' = Mutated(feat)
    /\ UNCHANGED <<pageVars, mainLoaded, scenesLoaded, rng, now, viewport, loads,
                   main, uncaught>>

\* One scene's requestAnimationFrame callback, at page time n.
Tick(sc, n, animate(_, _)) ==
    IF sc.raf = 0 THEN sc
    ELSE animate([ sc EXCEPT !.raf = @ - 1 ], (n - sc.clockStart) * TimeStep)

Frames == hero.frames + tech.frames + about.frames + cta.frames + feat.frames
Running == hero.raf + tech.raf + about.raf + cta.raf + feat.raf > 0

\* An animation frame: the callbacks of all five render loops.
Frame ==
    /\ Loaded
    /\ Running
    /\ \A sc \in {hero, tech, about, cta, feat} : sc.frames <= MaxFrames
    /\ \E d \in 0..1 :
         /\ now + d <= MaxTime
         /\ now' = now + d
         /\ hero' = Tick(hero, now + d, HeroAnimate)
         /\ tech' = Tick(tech, now + d, TechAnimate)
         /\ about' = Tick(about, now + d, AboutAnimate)
         /\ cta' = Tick(cta, now + d, CtaAnimate)
         /\ feat' = Tick(feat, now + d, FeatAnimate)
    /\ UNCHANGED <<pageVars, localStorage, dataTheme, mainLoaded, scenesLoaded,
                   rng, viewport, clicks, loads, main, uncaught>>

\* window 'resize': the listeners of the built scenes.
Resized(sc, size) == IF sc.resizeListeners > 0 THEN onResize(sc, size) ELSE sc

Resize ==
    /\ Loaded
    /\ \E size \in Sizes :
         /\ size # viewport
         /\ viewport' = size
         /\ hero' = Resized(hero, size)
         /\ tech' = Resized(tech, size)
         /\ about' = Resized(about, size)
         /\ cta' = Resized(cta, size)
         /\ feat' = Resized(feat, size)
    /\ UNCHANGED <<pageVars, localStorage, dataTheme, mainLoaded, scenesLoaded,
                   rng, now, clicks, loads, main, uncaught>>

\* window 'mousemove': the hero scene is the only listener.
MouseMove ==
    /\ Loaded
    /\ hero.mouseListeners > 0
    /\ \E p \in PointerPositions :
         /\ HeroOnMouseMove(hero, p) # hero
         /\ hero' = HeroOnMouseMove(hero, p)
    /\ UNCHANGED <<pageVars, localStorage, dataTheme, mainLoaded, scenesLoaded,
                   rng, now, viewport, clicks, loads, tech, about, cta, feat,
                   main, uncaught>>

\* The visitor reloads the page: a new document and new scripts; localStorage
\* and the window size stay.
Reload ==
    /\ Loaded
    /\ loads < MaxLoads
    /\ loads' = loads + 1
    /\ dataTheme' = NoValue
    /\ mainLoaded' = FALSE
    /\ scenesLoaded' = FALSE
    /\ rng' \in 0..(NumSeeds - 1)
    /\ now' = 0
    /\ clicks' = 0
    /\ hero' = NoHero
    /\ tech' = NoTech
    /\ about' = NoAbout
    /\ cta' = NoCta
    /\ feat' = NoFeat
    /\ main' = Unloaded(main.elements)
    /\ uncaught' = {}
    /\ UNCHANGED <<pageVars, localStorage, viewport>>

Next ==
    \/ MainDOMContentLoaded
    \/ ScenesDOMContentLoaded
    \/ Notify
    \/ Click
    \/ Frame
    \/ Resize
    \/ MouseMove
    \/ Reload

Spec == Init /\ [][Next]_vars

\* A visit with a stored theme that no revision of the page writes (left by
\* another version of the site, or edited by hand).
ForeignThemes == {"auto"}

InitStored == Start /\ localStorage \in ForeignThemes

SpecStored == InitStored /\ [][Next]_vars

-----------------------------------------------------------------------------
(* The events of js/main.js, on a page whose scenes are not built *)

\* A freshly loaded document of each kind in MainPages.
InitMain ==
    /\ script = "three-scenes.js"
    /\ containers \in {SceneIds, {}}
    /\ hasToggle = TRUE
    /\ localStorage = NoValue
    /\ dataTheme = NoValue
    /\ mainLoaded = FALSE
    /\ scenesLoaded = FALSE
    /\ rng = 0
    /\ now = 0
    /\ viewport = [w |-> 800, h |-> 600]
    /\ clicks = 0
    /\ loads = 1
    /\ hero = NoHero
    /\ tech = NoTech
    /\ about = NoAbout
    /\ cta = NoCta
    /\ feat = NoFeat
    /\ main \in { Unloaded(els) : els \in MainPages }
    /\ uncaught = {}

\* What a handler of main.js leaves alone.
sceneState == <<pageVars, localStorage, dataTheme, mainLoaded, scenesLoaded,
                rng, now, viewport, clicks, loads, sceneVars>>

\* A handler of main.js has run and left the page in state m.
Handled(m) ==
    /\ main' = m
    /\ uncaught' = uncaught \cup MainThrown(m)
    /\ UNCHANGED sceneState

\* The timers that are due, and the one that runs first: timers of equal
\* due time run in the order they were set.
Due(m) == { tm \in m.timers : tm.due <= m.clock }
Rank(name) == CASE name = "fallback" -> 0 [] name = "hide" -> 1 [] OTHER -> 2
FirstDue(m) ==
    CHOOSE tm \in Due(m) : \A o \in Due(m) : Rank(tm.name) <= Rank(o.name)

\* Time passes, up to the next timer.
Elapse ==
    /\ mainLoaded
    /\ Due(main) = {}
    /\ main.clock < MaxClock
    /\ LET next == main.clock + ClockStep
           dues == { tm.due : tm \in main.timers }
           to   == IF \E d \in dues : d < next
                   THEN CHOOSE d \in dues : \A e \in dues : d <= e
                   ELSE next
       IN  main' = [ main EXCEPT !.clock = to ]
    /\ UNCHANGED <<sceneState, uncaught>>

\* The window's load event.
WindowLoad ==
    /\ mainLoaded
    /\ "load" \in main.listeners
    /\ ~main.loadFired
    /\ Due(main) = {}
    /\ Handled(OnLoad(main))

\* A timer callback.
Timeout ==
    /\ mainLoaded
    /\ Due(main) # {}
    /\ Handled(OnTimer(main, FirstDue(main)))

\* The window is scrolled.
Scroll ==
    /\ mainLoaded
    /\ \E y \in ScrollPositions :
         /\ y # main.scrollY
         /\ Handled(OnScroll(main, y))

\* The animation frame that runs updateNavbar.
NavFrame ==
    /\ mainLoaded
    /\ main.navFrames > 0
    /\ Handled(updateNavbar(main))

\* A click on the menu button.
MenuClick ==
    /\ "click:menuBtn" \in main.listeners
    /\ Handled(toggleMenu(main))

\* A click on a link of the mobile menu.
MobileLinkClick ==
    /\ "click:mobileLink" \in main.listeners
    /\ Handled(OnMobileLink(main))

\* The Escape key.
KeyEscape ==
    /\ "keydown:escape" \in main.listeners
    /\ Handled(OnEscape(main))

\* A click on the link to #about.
AnchorClick ==
    /\ "click:anchor" \in main.listeners
    /\ Handled(OnAnchor(main))

NextMain ==
    \/ MainDOMContentLoaded
    \/ Elapse
    \/ WindowLoad
    \/ Timeout
    \/ Scroll
    \/ NavFrame
    \/ MenuClick
    \/ MobileLinkClick
    \/ KeyEscape
    \/ AnchorClick

SpecMain == InitMain /\ [][NextMain]_vars


-----------------------------------------------------------------------------
(* The keyboard: the Konami code typed after a few other keys *)

\* What the visitor types: up to MaxLead keys, the Konami code, and then
\* nothing, one more key, or the code again.
KonamiInputs ==
    { lead \o konamiCode \o tail :
        lead \in UNION { [1..k -> {"ArrowUp", "ArrowDown", "b"}] : k \in 0..MaxLead },
        tail \in { <<>>, <<"a">>, konamiCode } }

InitKonami ==
    /\ script = "three-scenes.js"
    /\ containers = {}
    /\ hasToggle = TRUE
    /\ localStorage = NoValue
    /\ dataTheme = NoValue
    /\ mainLoaded = FALSE
    /\ scenesLoaded = FALSE
    /\ rng = 0
    /\ now = 0
    /\ viewport = [w |-> 800, h |-> 600]
    /\ clicks = 0
    /\ loads = 1
    /\ hero = NoHero
    /\ tech = NoTech
    /\ about = NoAbout
    /\ cta = NoCta
    /\ feat = NoFeat
    /\ main \in { [ Unloaded(MainElements) EXCEPT !.typing = t ] :
                    t \in KonamiInputs }
    /\ uncaught = {}

\* A key is pressed.
KeyDown ==
    /\ main.typing # <<>>
    /\ Handled(OnKeyDown([ main EXCEPT !.typing = Tail(@) ], Head(main.typing)))

SpecKonami == InitKonami /\ [][KeyDown]_vars

-----------------------------------------------------------------------------
(* The stat counters: CounterAnimation (js/animations.js).  Numbers shown    *)
(* and targets are in hundredths, progress and easing in thousandths.       *)

Duration == 2000        \* const duration = 2000

\* The data-count attributes: "50", "2.5" and "9.99".
CounterTargets == {5000, 250, 999}

\* A .stat-number element before CounterAnimation is constructed.
Counter(target) ==
    [ target |-> target,       \* parseFloat(data-count)
      text |-> 0,              \* the number textContent shows
      observed |-> FALSE,      \* observer.observe(counter) was called
      visible |-> FALSE,       \* the element intersects the viewport
      animated |-> FALSE,      \* this.animated.has(element)
      starts |-> 0,            \* calls of animateCounter for the element
      requests |-> 0,          \* pending requestAnimationFrame(updateCounter)
      startTime |-> 0 ]

\* x.toFixed(1): one decimal, rounded.
toFixed1(x) == ((x + 5) \div 10) * 10

\* 1 - Math.pow(1 - progress, 4)
easeOutQuart(progress) ==
    1000 - Mul(Mul(1000 - progress, 1000 - progress),
               Mul(1000 - progress, 1000 - progress))

\* animateCounter(element) at time t.
animateCounter(c, t) ==
    [ c EXCEPT !.starts = @ + 1, !.startTime = t, !.requests = @ + 1 ]

\* updateCounter(currentTime), the frame callback of one counter.
updateCounter(c, currentTime) ==
    LET elapsed   == currentTime - c.startTime
        ratio     == (elapsed * 1000) \div Duration
        progress  == IF ratio < 1000 THEN ratio ELSE 1000
        current   == Mul(c.target, easeOutQuart(progress))
        isDecimal == c.target % 100 # 0
        shown     == IF isDecimal THEN toFixed1(current)
                     ELSE (current \div 100) * 100
    IN  IF c.requests = 0 THEN c
        ELSE IF progress < 1000
        THEN [ c EXCEPT !.text = shown ]
        ELSE [ c EXCEPT !.requests = @ - 1,
                        !.text = IF isDecimal THEN toFixed1(c.target)
                                 ELSE c.target ]

\* The IntersectionObserver callback for one entry, at time t.
OnIntersection(c, isIntersecting, t) ==
    LET seen == [ c EXCEPT !.visible = isIntersecting ]
    IN  IF isIntersecting /\ ~c.animated
        THEN animateCounter([ seen EXCEPT !.animated = TRUE ], t)
        ELSE seen

InitCounter ==
    /\ script = "three-scenes.js"
    /\ containers = {}
    /\ hasToggle = TRUE
    /\ localStorage = NoValue
    /\ dataTheme = NoValue
    /\ mainLoaded = FALSE
    /\ scenesLoaded = FALSE
    /\ rng = 0
    /\ now = 0
    /\ viewport = [w |-> 800, h |-> 600]
    /\ clicks = 0
    /\ loads = 1
    /\ hero = NoHero
    /\ tech = NoTech
    /\ about = NoAbout
    /\ cta = NoCta
    /\ feat = NoFeat
    /\ main \in { [ Unloaded(MainElements) EXCEPT
                      !.counters = [i \in 1..NumCounters |-> Counter(t[i])] ] :
                    t \in [1..NumCounters -> CounterTargets] }
    /\ uncaught = {}

\* animations.js, DOMContentLoaded: new CounterAnimation() observes every
\* counter.
CountersLoaded ==
    /\ \E i \in DOMAIN main.counters : ~main.counters[i].observed
    /\ Handled([ main EXCEPT !.counters = [i \in DOMAIN @ |->
                   [ main.counters[i] EXCEPT !.observed = TRUE ]] ])

\* A counter enters or leaves the viewport.
Intersection ==
    \E i \in DOMAIN main.counters :
        /\ main.counters[i].observed
        /\ Handled([ main EXCEPT !.counters[i] =
               OnIntersection(@, ~main.counters[i].visible, main.clock) ])

\* An animation frame, ClockStep or no time after the last event: the pending
\* updateCounter callbacks of all counters.
CounterFrame ==
    /\ \E i \in DOMAIN main.counters : main.counters[i].requests > 0
    /\ \E d \in {0, ClockStep} :
         /\ main.clock + d <= MaxClock
         /\ Handled([ main EXCEPT
               !.clock = @ + d,
               !.counters = [i \in DOMAIN @ |->
                   updateCounter(main.counters[i], main.clock + d)] ])

SpecCounter == InitCounter /\ [][CountersLoaded \/ Intersection \/ CounterFrame]_vars

-----------------------------------------------------------------------------
(* Views of a scene used by the properties below *)

\* A material without its colour and opacity, and these two alone.
Plain(m) == [ m EXCEPT !.color = 0, !.opacity = 0 ]
Paint(m) == <<m.color, m.opacity>>

\* Everything of a scene but the colour and opacity of its materials (and the
\* mutation records waiting for its observer).
HeroShape(h) ==
    [ h EXCEPT
        !.core.material = Plain(@), !.innerCore.material = Plain(@),
        !.glowSphere.material = Plain(@), !.particleSystem.material = Plain(@),
        !.quantumOrbitals = [i \in DOMAIN @ |->
            [ h.quantumOrbitals[i] EXCEPT !.material = Plain(@) ]],
        !.entanglementLines = [i \in DOMAIN @ |->
            [ h.entanglementLines[i] EXCEPT !.material = Plain(@) ]],
        !.queue = 0 ]

TechShape(p) ==
    [ p EXCEPT
        !.gridHelper.material = Plain(@),
        !.qubits = [i \in DOMAIN @ |->
            [ p.qubits[i] EXCEPT !.mesh = Plain(@), !.ring = Plain(@) ]],
        !.connections = [i \in DOMAIN @ |->
            [ p.connections[i] EXCEPT !.material = Plain(@) ]],
        !.queue = 0 ]

AboutShape(a) ==
    [ a EXCEPT
        !.nodes = [i \in DOMAIN @ |->
            [ a.nodes[i] EXCEPT !.material = Plain(@) ]],
        !.connections = [i \in DOMAIN @ |->
            [ a.connections[i] EXCEPT !.material = Plain(@) ]],
        !.queue = 0 ]

CtaShape(c) == [ c EXCEPT !.particles.material = Plain(@), !.queue = 0 ]

FeatShape(f) ==
    [ f EXCEPT
        !.core.material = Plain(@),
        !.orbits = [i \in DOMAIN @ |->
            [ f.orbits[i] EXCEPT !.material = Plain(@), !.electron = Plain(@) ]],
        !.queue = 0 ]

\* The colours and opacities of a scene's materials.
HeroPaint(h) ==
    << Paint(h.core.material), Paint(h.innerCore.material),
       Paint(h.glowSphere.material), Paint(h.particleSystem.material),
       [i \in DOMAIN h.quantumOrbitals |-> Paint(h.quantumOrbitals[i].material)],
       [i \in DOMAIN h.entanglementLines |->
           Paint(h.entanglementLines[i].material)] >>

TechPaint(p) ==
    << Paint(p.gridHelper.material),
       [i \in DOMAIN p.qubits |-> <<Paint(p.qubits[i].mesh), Paint(p.qubits[i].ring)>>],
       [i \in DOMAIN p.connections |-> Paint(p.connections[i].material)] >>

AboutPaint(a) ==
    << [i \in DOMAIN a.nodes |-> Paint(a.nodes[i].material)],
       [i \in DOMAIN a.connections |-> Paint(a.connections[i].material)] >>

CtaPaint(c) == Paint(c.particles.material)

FeatPaint(f) ==
    << Paint(f.core.material),
       [i \in DOMAIN f.orbits |->
           <<Paint(f.orbits[i].material), Paint(f.orbits[i].electron)>>] >>

\* The object transforms a frame writes.
HeroTransforms(h) ==
    << h.positions,
       [i \in DOMAIN h.quantumOrbitals |->
           <<h.quantumOrbitals[i].rotX, h.quantumOrbitals[i].rotY,
             h.quantumOrbitals[i].rotZ>>],
       <<h.camera.x, h.camera.y, h.camera.z>>,
       <<h.core.rotX, h.core.rotY, h.innerCore.rotX, h.innerCore.rotY>>,
       h.glowSphere.scale, h.particleSystem.rotY,
       [i \in DOMAIN h.entanglementLines |-> h.entanglementLines[i].rotY] >>

TechTransforms(p) ==
    << [i \in DOMAIN p.qubits |->
           <<p.qubits[i].y, p.qubits[i].ringRotZ, p.qubits[i].scale>>],
       <<p.camera.x, p.camera.y, p.camera.z>> >>

\* The elapsed time a scene's clock shows now.
Elapsed(sc) == (now - sc.clockStart) * TimeStep

\* A scene whose constructor ran to its end.
Built(sc) == sc.container /\ sc.observers > 0

Themes == {"dark", "light"}


-----------------------------------------------------------------------------
(* C1 - C10 *)

\* C1 (isolation law): delivering a theme change to the built scenes changes
\* nothing but the colour and opacity of their materials: object counts,
\* geometries, transforms, the other material fields (point size, emissive),
\* the camera and the listeners stay as they were.
C1_IsolationLaw ==
    [][Notify => /\ HeroShape(hero') = HeroShape(hero)
                 /\ TechShape(tech') = TechShape(tech)
                 /\ AboutShape(about') = AboutShape(about)
                 /\ CtaShape(cta') = CtaShape(cta)
                 /\ FeatShape(feat') = FeatShape(feat)]_vars

\* What one more theme change to theme T would paint, from scene sc with the
\* generator in state s.
Repaint(id, sc, T, s) == updateColors(script, id, sc, T, s).scene

\* C2 (convergence law): the colours and opacities a theme change to T
\* produces are the same whether or not another theme change came before it;
\* so N toggles ending in T paint what a single toggle to T paints.
C2_ConvergenceLaw ==
    [][Notify =>
         \A T \in Themes :
            /\ HeroPaint(Repaint("hero-canvas", hero', T, rng'))
                   = HeroPaint(Repaint("hero-canvas", hero, T, rng))
            /\ TechPaint(Repaint("tech-canvas", tech', T, rng'))
                   = TechPaint(Repaint("tech-canvas", tech, T, rng))
            /\ AboutPaint(Repaint("about-canvas", about', T, rng'))
                   = AboutPaint(Repaint("about-canvas", about, T, rng))
            /\ CtaPaint(Repaint("cta-canvas", cta', T, rng'))
                   = CtaPaint(Repaint("cta-canvas", cta, T, rng))
            /\ FeatPaint(Repaint("feature-visual-1", feat', T, rng'))
                   = FeatPaint(Repaint("feature-visual-1", feat, T, rng))]_vars

\* C3: a built scene holds exactly one theme observer and one resize
\* listener (the hero scene one mousemove listener as well), a scene that
\* was not built holds none, whatever number of toggles happened.
C3_OneSubscription ==
    /\ \A sc \in {hero, tech, about, cta, feat} :
          /\ sc.observers = (IF sc.container THEN 1 ELSE 0)
          /\ sc.resizeListeners = (IF sc.container THEN 1 ELSE 0)
    /\ hero.mouseListeners = (IF hero.container THEN 1 ELSE 0)

\* C3's case: a built page after two toggles, the records delivered.
C3_Witness ==
    /\ clicks >= 2 /\ ~Pending
    /\ Built(hero) /\ Built(feat)

\* C4 (tick idempotence): running a scene's frame update twice at the same
\* elapsed time gives the object transforms that running it once gives.
C4_TickIdempotent ==
    /\ Built(hero) =>
          HeroTransforms(HeroAnimate(HeroAnimate(hero, Elapsed(hero)),
                                     Elapsed(hero)))
              = HeroTransforms(HeroAnimate(hero, Elapsed(hero)))
    /\ Built(tech) =>
          TechTransforms(TechAnimate(TechAnimate(tech, Elapsed(tech)),
                                     Elapsed(tech)))
              = TechTransforms(TechAnimate(tech, Elapsed(tech)))

\* C5 (no randomness after build): once the scenes are built, no step of the
\* page draws from Math.random().
C5_NoRandomnessAfterBuild ==
    [][(scenesLoaded /\ scenesLoaded') => rng' = rng]_vars

\* C6: a scene whose container is missing raises nothing, inserts no canvas,
\* registers no listener or observer and requests no frame; the scenes
\* whose containers exist are built all the same.
C6_MissingContainerNoOp ==
    scenesLoaded =>
        /\ uncaught = {}
        /\ "hero-canvas" \notin containers => hero = NoHero
        /\ "tech-canvas" \notin containers => tech = NoTech
        /\ "about-canvas" \notin containers => about = NoAbout
        /\ "cta-canvas" \notin containers => cta = NoCta
        /\ "feature-visual-1" \notin containers => feat = NoFeat
        /\ "hero-canvas" \in containers => Built(hero) /\ hero.canvases = 1
        /\ "tech-canvas" \in containers => Built(tech) /\ tech.canvases = 1
        /\ "about-canvas" \in containers => Built(about) /\ about.canvases = 1
        /\ "cta-canvas" \in containers => Built(cta) /\ cta.canvases = 1
        /\ "feature-visual-1" \in containers => Built(feat) /\ feat.canvases = 1

\* C6's case: a page without three of the containers; the feature scene,
\* constructed after the three missing ones, is built.
C6_Witness ==
    /\ scenesLoaded
    /\ containers = {"hero-canvas", "feature-visual-1"}
    /\ tech = NoTech /\ about = NoAbout /\ cta = NoCta
    /\ Built(feat) /\ feat.raf = 1

\* C7 (degenerate viewport guard): a resize to a container of height 0 or
\* width 0 leaves the camera aspect and the surface size of every scene as
\* they were.
C7_DegenerateViewportGuard ==
    [][(Resize /\ (viewport'.h = 0 \/ viewport'.w = 0)) =>
          /\ hero'.camera.aspect = hero.camera.aspect /\ hero'.size = hero.size
          /\ tech'.camera.aspect = tech.camera.aspect /\ tech'.size = tech.size
          /\ about'.camera.aspect = about.camera.aspect /\ about'.size = about.size
          /\ cta'.camera.aspect = cta.camera.aspect /\ cta'.size = cta.size
          /\ feat'.camera.aspect = feat.camera.aspect /\ feat'.size = feat.size]_vars

\* No colour or opacity of an existing material is undefined.
Defined(m) == m.color # Undefined /\ m.opacity # Undefined

AllDefined ==
    /\ hero.core.exists => Defined(hero.core.material)
    /\ hero.innerCore.exists => Defined(hero.innerCore.material)
    /\ hero.glowSphere.exists => Defined(hero.glowSphere.material)
    /\ hero.particleSystem.exists => Defined(hero.particleSystem.material)
    /\ \A i \in DOMAIN hero.quantumOrbitals :
          Defined(hero.quantumOrbitals[i].material)
    /\ \A i \in DOMAIN hero.entanglementLines :
          Defined(hero.entanglementLines[i].material)
    /\ \A i \in DOMAIN hero.vertexColors :
          hero.vertexColors[i].from # Undefined /\ hero.vertexColors[i].to # Undefined
    /\ tech.gridHelper.exists =>
          Defined(tech.gridHelper.material) /\ tech.gridHelper.centerColor # Undefined
    /\ \A i \in DOMAIN tech.qubits :
          Defined(tech.qubits[i].mesh) /\ Defined(tech.qubits[i].ring)
    /\ \A i \in DOMAIN tech.connections : Defined(tech.connections[i].material)
    /\ \A i \in DOMAIN about.nodes : Defined(about.nodes[i].material)
    /\ \A i \in DOMAIN about.connections : Defined(about.connections[i].material)
    /\ cta.particles.exists => Defined(cta.particles.material)
    /\ \A i \in DOMAIN cta.vertexColors :
          cta.vertexColors[i].from # Undefined /\ cta.vertexColors[i].to # Undefined
    /\ feat.core.exists => Defined(feat.core.material)
    /\ \A i \in DOMAIN feat.orbits :
          Defined(feat.orbits[i].material) /\ Defined(feat.orbits[i].electron)

\* C8 (unknown theme fails fast): with a data-theme outside {dark, light},
\* once both scripts have run the page has raised a palette-not-found
\* condition, and no material holds an undefined colour or opacity.
C8_UnknownThemeFailsFast ==
    /\ (mainLoaded /\ scenesLoaded /\ ~Pending /\ containers # {}
            /\ dataTheme \notin Themes)
          => "PaletteNotFound" \in uncaught
    /\ AllDefined

\* C9 (palette completeness): with the theme dark or light, every palette
\* key the build steps and updateColors read is defined: no colour or
\* opacity of any revision's scenes is undefined.
C9_PaletteComplete == dataTheme \in Themes \cup {NoValue} => AllDefined

\* C9's case: scenes painted for the light theme by a theme change.
C9_Witness ==
    /\ dataTheme = "light" /\ clicks >= 1 /\ ~Pending
    /\ Built(hero) /\ Built(tech) /\ Built(about) /\ Built(cta) /\ Built(feat)

-----------------------------------------------------------------------------
(* C11 - C20 *)

\* C11 (default theme): with no data-theme attribute the theme the scenes
\* read is dark and they are built with the dark palette; with no saved
\* preference initTheme writes dark.
C11_DefaultTheme ==
    /\ dataTheme = NoValue => getCurrentTheme(dataTheme) = "dark"
    /\ (scenesLoaded /\ dataTheme = NoValue /\ "hero-canvas" \in containers) =>
          /\ Built(hero)
          /\ hero.core.material.color = Palette(script)["dark"].primary
          /\ feat.core.material.color = Palette(script)["dark"].primary
    /\ (mainLoaded /\ localStorage = NoValue) => dataTheme = "dark"

\* C11's case: the scenes built before initTheme has set the attribute.
C11_Witness ==
    /\ scenesLoaded /\ ~mainLoaded /\ dataTheme = NoValue
    /\ Built(hero) /\ Built(feat)

\* A scene with the camera aspect and the surface size of another one.
Unsized(sc, old) == [ sc EXCEPT !.camera.aspect = old.camera.aspect,
                                !.size = old.size ]

\* C12 (onResize idempotent): a resize changes nothing of a scene but its
\* camera aspect and surface size, and a second call with the same container
\* dimensions changes nothing at all.
C12_ResizeIdempotent ==
    [][Resize =>
         /\ Unsized(hero', hero) = hero /\ Resized(hero', viewport') = hero'
         /\ Unsized(tech', tech) = tech /\ Resized(tech', viewport') = tech'
         /\ Unsized(about', about) = about /\ Resized(about', viewport') = about'
         /\ Unsized(cta', cta) = cta /\ Resized(cta', viewport') = cta'
         /\ Unsized(feat', feat) = feat /\ Resized(feat', viewport') = feat']_vars

\* C12's case: a built page resized after frames were rendered.
C12_Witness ==
    /\ Built(hero) /\ Built(about) /\ hero.frames >= 2
    /\ viewport = [w |-> 0, h |-> 600]
    /\ hero.size = viewport /\ about.size = viewport
    /\ about.camera.aspect = Aspect(viewport)

\* The browser runs what it has scheduled: initTheme at DOMContentLoaded,
\* the mutation-record microtask and the requested animation frames.
Fairness ==
    /\ WF_vars(MainDOMContentLoaded)
    /\ WF_vars(Notify)
    /\ WF_vars(Frame)

SpecFair == Init /\ [][Next]_vars /\ Fairness

\* C13 (the render loop never stops): a built scene has a frame callback
\* pending in every state, whatever events happened, and with the browser
\* running the requested frames the loop goes on to the last frame the model
\* counts, unless the page is unloaded before.
C13_RenderLoopNeverStops ==
    /\ [](/\ Built(hero) => hero.raf = 1
          /\ Built(tech) => tech.raf = 1
          /\ Built(about) => about.raf = 1
          /\ Built(cta) => cta.raf = 1
          /\ Built(feat) => feat.raf = 1)
    /\ (Built(hero) ~> (hero.frames > MaxFrames \/ ~Built(hero)))
    /\ (Built(feat) ~> (feat.frames > MaxFrames \/ ~Built(feat)))

\* C13's case: the loop still pending after a theme change, a resize and a
\* pointer move, all frames of the model rendered.
C13_Witness ==
    /\ Built(hero) /\ hero.raf = 1 /\ hero.frames > MaxFrames
    /\ clicks >= 1 /\ ~Pending
    /\ viewport # [w |-> 800, h |-> 600]
    /\ hero.mouse # [x |-> 0, y |-> 0]

\* The squared distance of two qubits as they were built (y = baseY).
BuildDistance2(a, b) ==
    (a.x - b.x) * (a.x - b.x) + (a.baseY - b.baseY) * (a.baseY - b.baseY)
        + (a.z - b.z) * (a.z - b.z)

\* Two qubits are orthogonal neighbours on the grid.
Orthogonal(a, b) ==
    \/ a.x = b.x /\ (a.z - b.z = Spacing \/ b.z - a.z = Spacing)
    \/ a.z = b.z /\ (a.x - b.x = Spacing \/ b.x - a.x = Spacing)

\* The pairs of qubits a connection line joins.
Joined == { <<tech.connections[k].from, tech.connections[k].to>> :
                k \in DOMAIN tech.connections }

\* C14 (processor connections): the built processor scene has exactly one
\* line for every unordered pair of qubits built less than 4 apart and no
\* other line: for the 5 x 5 grid the 40 pairs of orthogonal neighbours, in
\* every build, whatever the random draws and the theme.
C14_ProcessorConnections ==
    Built(tech) =>
        /\ Len(tech.qubits) = 25
        /\ Len(tech.connections) = 40
        /\ Cardinality(Joined) = 40
        /\ Joined = { pr \in (DOMAIN tech.qubits) \X (DOMAIN tech.qubits) :
                        /\ pr[1] < pr[2]
                        /\ BuildDistance2(tech.qubits[pr[1]], tech.qubits[pr[2]])
                               < 4000 * 4000 }
        /\ \A pr \in Joined : Orthogonal(tech.qubits[pr[1]], tech.qubits[pr[2]])

\* C14's case: the processor scene rebuilt under the light theme after a
\* reload, frames rendered.
C14_Witness ==
    /\ Built(tech) /\ loads = 2 /\ dataTheme = "light" /\ tech.frames >= 2
    /\ Len(tech.connections) = 40

\* The radii the particles were built with.
Radii(h) == [i \in DOMAIN h.particles |-> h.particles[i].radius]

\* C15 (bounded perturbation): at every elapsed time the radial distance a
\* tick places a hero particle at is within 2 of the particle's build-time
\* radius, and no step after the build changes the stored radius.
C15_BoundedPerturbation ==
    /\ [](Built(hero) =>
            \A i \in DOMAIN hero.particles : \A t \in 0..MaxElapsed :
                /\ Radial(hero.particles[i], t) >= hero.particles[i].radius - 2000
                /\ Radial(hero.particles[i], t) <= hero.particles[i].radius + 2000)
    /\ [][(scenesLoaded /\ scenesLoaded') => Radii(hero') = Radii(hero)]_vars

\* C15's case: a particle placed off its build-time radius by the last frame
\* of the model.
C15_Witness ==
    /\ Built(hero) /\ hero.frames > MaxFrames /\ now = MaxTime
    /\ \E i \in DOMAIN hero.particles :
          /\ Radial(hero.particles[i], Elapsed(hero)) # hero.particles[i].radius
          /\ hero.particles[i].theta # 0

\* The slots of the position array that the hero's particles index.
Indices(h) == { h.particles[i].index : i \in DOMAIN h.particles }

\* C16 (particle set size is fixed): after the build no step changes the
\* number of particles of the hero and CTA scenes or the length of their
\* position arrays, and the indices the tick writes at are the indices
\* 0 .. n-1 created at build.
C16_ParticleSetFixed ==
    /\ [](Built(hero) =>
             /\ Len(hero.particles) > 0
             /\ Len(hero.positions) = Len(hero.particles)
             /\ Len(hero.vertexColors) = Len(hero.particles)
             /\ Indices(hero) = 0..(Len(hero.positions) - 1))
    /\ [][(scenesLoaded /\ scenesLoaded') =>
             /\ Len(hero'.particles) = Len(hero.particles)
             /\ Len(hero'.positions) = Len(hero.positions)
             /\ Indices(hero') = Indices(hero)
             /\ Len(cta'.positions) = Len(cta.positions)]_vars

\* C16's case: part_000 built under light (the larger particle count), then
\* switched to dark, frames rendered.
C16_Witness ==
    /\ script = "part_000" /\ Built(hero) /\ Built(cta)
    /\ dataTheme = "dark" /\ ~Pending /\ hero.frames > MaxFrames
    /\ Len(hero.particles) = ParticleCount_000("light")
    /\ Len(hero.particles) # ParticleCount_000("dark")

\* C17 (absent DOM element means do nothing): no initializer of main.js, and
\* no event or timer callback one of them registered, raises an error when
\* the element it targets is absent from the document.
C17_AbsentElementDoNothing ==
    \A e \in {"preloader", "navbar", "mobile-menu", "hero-scroll"} :
        e \notin main.elements => ~main.error /\ uncaught = {}

\* The steps of a render-loop invocation, in the order of the source.
StepOrder == <<"requestAnimationFrame", "getElapsedTime", "update", "render">>

\* Step a comes before step b in the trace tr.
Precedes(tr, a, b) ==
    \E i, j \in DOMAIN tr : i < j /\ tr[i] = a /\ tr[j] = b

\* C18 as stated (render-loop step order): in each invocation the next frame
\* is requested only after the elapsed time was computed and the tick was
\* applied.
C18_RequestAfterTick ==
    \A sc \in {hero, tech, about, cta, feat} :
        Built(sc) =>
            /\ Precedes(sc.trace, "getElapsedTime", "requestAnimationFrame")
            /\ Precedes(sc.trace, "update", "requestAnimationFrame")

\* C18 (render-loop step order), amended: each invocation of a built scene's
\* render loop requests the next frame first, then computes the elapsed
\* time, then applies the tick, then renders.
C18_StepOrder ==
    \A sc \in {hero, tech, about, cta, feat} :
        Built(sc) => sc.trace = StepOrder

\* C18's case: the hero and the feature visual are running and the hero has
\* rendered frames after the one of its constructor.
C18_Witness ==
    /\ Built(hero) /\ Built(feat) /\ hero.frames >= 3 /\ feat.frames >= 3
    /\ Precedes(hero.trace, "requestAnimationFrame", "update")

\* The colour values of a theme's palette.
ColourKeys ==
    {"primary", "secondary", "highlight", "tertiary", "quaternary", "accent",
     "depth1", "depth2", "depth3", "depth4", "depth5"}
PaletteColours(colors) ==
    { colors[k] : k \in ColourKeys \cap DOMAIN colors }
        \cup (IF "gradientColors" \in DOMAIN colors
              THEN { colors.gradientColors[i] : i \in DOMAIN colors.gradientColors }
              ELSE {})

\* The colours of the materials that each scene's build step takes from the
\* theme palette (the point clouds are coloured per vertex, not by material).
HeroColours(h) ==
    {h.core.material.color, h.innerCore.material.color,
     h.glowSphere.material.color}
        \cup { h.quantumOrbitals[i].material.color : i \in DOMAIN h.quantumOrbitals }
        \cup { h.entanglementLines[i].material.color :
                   i \in DOMAIN h.entanglementLines }
TechColours(p) ==
    {p.gridHelper.material.color}
        \cup { p.qubits[i].mesh.color : i \in DOMAIN p.qubits }
        \cup { p.qubits[i].ring.color : i \in DOMAIN p.qubits }
        \cup { p.connections[i].material.color : i \in DOMAIN p.connections }
AboutColours(a) ==
    { a.nodes[i].material.color : i \in DOMAIN a.nodes }
        \cup { a.connections[i].material.color : i \in DOMAIN a.connections }
FeatColours(f) ==
    {f.core.material.color}
        \cup { f.orbits[i].material.color : i \in DOMAIN f.orbits }
        \cup { f.orbits[i].electron.color : i \in DOMAIN f.orbits }

\* The theme-controlled colours of a built scene that are not colours of the
\* palette of theme attr.
Stale(sc, colours, attr) ==
    IF Built(sc)
    THEN colours \ PaletteColours(Palette(script)[getCurrentTheme(attr)])
    ELSE {}

\* C19 (theme propagation): once the observer callbacks that a change of
\* data-theme queued have run, the theme-controlled material colours of each
\* built scene are those of the current data-theme value.
C19_ThemePropagation ==
    [][Notify =>
          /\ Stale(hero', HeroColours(hero'), dataTheme') = {}
          /\ Stale(tech', TechColours(tech'), dataTheme') = {}
          /\ Stale(about', AboutColours(about'), dataTheme') = {}
          /\ Stale(feat', FeatColours(feat'), dataTheme') = {}]_vars


\* A hero scene without what the pointer may reach: the stored mouse vector
\* and the camera's x and y.
Unpointed(h) == [ h EXCEPT !.mouse = [x |-> 0, y |-> 0],
                           !.camera.x = 0, !.camera.y = 0 ]

-----------------------------------------------------------------------------
(* C21 - C30 *)

\* The fallback timer of initPreloader has run.
FallbackRan(m) == \A tm \in m.timers : tm.name # "fallback"

\* C21 (preloader maximum wait): with a preloader element in the document,
\* the fallback has run once more than 3000 ms have passed since
\* initPreloader, and from then on the preloader carries the class hidden and
\* body overflow is visible, whether or not the load event fired; the class
\* hidden is never taken away again.
C21_PreloaderMaxWait ==
    /\ [](mainLoaded /\ "preloader" \in main.elements =>
             /\ main.clock > FallbackDelay => FallbackRan(main)
             /\ FallbackRan(main) =>
                    main.preloaderHidden /\ main.overflow = "visible")
    /\ [][main.preloaderHidden =>
             main'.preloaderHidden]_vars

\* C21's case: the load event has not fired, more than 3000 ms have passed
\* and the preloader is hidden.
C21_Witness ==
    /\ "preloader" \in main.elements /\ ~main.loadFired
    /\ main.clock > FallbackDelay /\ main.preloaderHidden
    /\ main.overflow = "visible"


\* The ten most recent keys are the Konami code.
TypedKonami(m) ==
    /\ Len(m.keys) >= Len(konamiCode)
    /\ SubSeq(m.keys, Len(m.keys) - Len(konamiCode) + 1, Len(m.keys)) = konamiCode

\* C22 (Konami matcher): a key press calls activateQuantumMode exactly when
\* the ten most recent keys are the Konami code, also when the code follows
\* keys that partially matched it; konamiIndex stays within 0..9.
C22_KonamiMatcher ==
    /\ [][KeyDown =>
             (main'.quantumMode = main.quantumMode + 1 <=> TypedKonami(main'))
             /\ main'.quantumMode \in {main.quantumMode, main.quantumMode + 1}]_vars
    /\ [](main.konamiIndex \in 0..(Len(konamiCode) - 1))


\* The colours and opacities of the five scenes.
Paints(h, p, a, c, f) ==
    <<HeroPaint(h), TechPaint(p), AboutPaint(a), CtaPaint(c), FeatPaint(f)>>

\* The colours and opacities of the scenes of this page when they are built
\* while data-theme is attr, Math.random() starting from state s.
PaintsBuiltUnder(attr, s) ==
    LET h == QuantumHeroScene(script, "hero-canvas" \in containers, attr,
                              viewport, s, now)
        p == QuantumProcessorScene(script, "tech-canvas" \in containers, attr,
                                   viewport, h.rng, now)
        a == NeuralNetworkScene(script, "about-canvas" \in containers, attr,
                                viewport, p.rng, now)
        c == FloatingParticlesScene(script, "cta-canvas" \in containers, attr,
                                    viewport, a.rng, now)
        f == FeatureQuantumScene(script, "feature-visual-1" \in containers,
                                 attr, viewport, c.rng, now)
    IN  Paints(h.scene, p.scene, a.scene, c.scene, f.scene)

\* The page was loaded with the saved theme light, both scripts have run, the
\* observers' callbacks too, and no frame and no click has followed.
LoadedLight ==
    /\ Loaded /\ dataTheme = "light" /\ clicks = 0
    /\ \A sc \in {hero, tech, about, cta, feat} : sc.frames <= 1

\* C23 (load-order independence): after a page load with the saved theme
\* light, the colours and opacities of the scenes are those of scenes built
\* while data-theme was light already, whichever of the two DOMContentLoaded
\* listeners ran first.
C23_LoadOrderIndependence ==
    LoadedLight =>
        \E s \in 0..(NumSeeds - 1) :
            Paints(hero, tech, about, cta, feat) = PaintsBuiltUnder("light", s)


\* The opacities that updateColors assigns and that C24 names.
LineOpacities(h) ==
    [i \in DOMAIN h.entanglementLines |-> h.entanglementLines[i].material.opacity]
NetOpacities(a) ==
    << [i \in DOMAIN a.nodes |-> a.nodes[i].material.opacity],
       [i \in DOMAIN a.connections |-> a.connections[i].material.opacity] >>

\* A scene with these opacities not assigned yet.
HeroUnassigned(h) ==
    [ h EXCEPT !.entanglementLines = [i \in DOMAIN @ |->
        [ h.entanglementLines[i] EXCEPT !.material.opacity = Undefined ]] ]
AboutUnassigned(a) ==
    [ a EXCEPT
        !.nodes = [i \in DOMAIN @ |->
            [ a.nodes[i] EXCEPT !.material.opacity = Undefined ]],
        !.connections = [i \in DOMAIN @ |->
            [ a.connections[i] EXCEPT !.material.opacity = Undefined ]] ]

\* These opacities are the ones updateColors assigns under the current
\* theme.
HeroAssigned ==
    /\ Built(hero) /\ hero.entanglementLines # <<>>
    /\ LineOpacities(updateColors(script, "hero-canvas", HeroUnassigned(hero),
                                  dataTheme, rng).scene) = LineOpacities(hero)
AboutAssigned ==
    /\ Built(about) /\ about.nodes # <<>>
    /\ NetOpacities(updateColors(script, "about-canvas", AboutUnassigned(about),
                                 dataTheme, rng).scene) = NetOpacities(about)

\* C24 (theme-assigned opacity persists across frames): a frame leaves the
\* opacities that updateColors assigned to the hero's entanglement lines and
\* to the nodes and connections of the neural network as they are.
C24_OpacityPersists ==
    [][Frame =>
          /\ HeroAssigned => LineOpacities(hero') = LineOpacities(hero)
          /\ AboutAssigned => NetOpacities(about') = NetOpacities(about)]_vars


\* C25 (mobile menu consistency): the three flags (menu button active, mobile
\* menu active, body menu-open) are always all set or all clear, and a click
\* on a mobile link or an Escape press leaves the menu closed.
C25_MobileMenuConsistent ==
    /\ [](/\ main.menuBtnActive = main.mobileMenuActive
          /\ main.mobileMenuActive = main.bodyMenuOpen)
    /\ [][MobileLinkClick \/ KeyEscape =>
             /\ ~main'.menuBtnActive
             /\ ~main'.mobileMenuActive
             /\ ~main'.bodyMenuOpen]_vars

\* C25's case: the menu has been opened by a click on the menu button.
C25_Witness ==
    /\ "click:mobileLink" \in main.listeners /\ "keydown:escape" \in main.listeners
    /\ main.menuBtnActive /\ main.mobileMenuActive /\ main.bodyMenuOpen


\* C26 (navbar scroll throttle): at most one updateNavbar frame callback is
\* pending, ticking is true exactly while one is pending, a scroll position
\* that updateNavbar has not read yet has a callback pending, and each
\* updateNavbar run reads the scroll position current at that time.
C26_NavbarThrottle ==
    /\ [](mainLoaded =>
             /\ main.navFrames <= 1
             /\ main.ticking <=> main.navFrames = 1
             /\ main.scrollY # main.lastScrollY => main.navFrames = 1)
    /\ [][NavFrame => main'.lastScrollY = main.scrollY]_vars


\* C27 (theme persistence round-trip): every theme-toggle click leaves the
\* saved preference equal to the data-theme attribute, it stays equal while
\* the page is open, and initTheme on a later load sets data-theme to the
\* saved preference, which is the theme last toggled to.
C27_ThemeRoundTrip ==
    /\ [][Click => localStorage' = dataTheme' /\ dataTheme' # dataTheme]_vars
    /\ [](mainLoaded /\ clicks > 0 => localStorage = dataTheme)
    /\ [][MainDOMContentLoaded /\ localStorage # NoValue =>
             dataTheme' = localStorage /\ localStorage' = localStorage]_vars

\* C27's case: the theme was toggled to light, the page was loaded again, and
\* initTheme has restored light.
C27_Witness ==
    /\ loads = 2 /\ mainLoaded /\ clicks = 0
    /\ localStorage = "light" /\ dataTheme = "light"


\* C28 (toggle step): a click turns dark into light and every other value
\* (light, unset, unrecognised) into dark; the value after a click is dark or
\* light; two clicks in a row from dark or from light give the first theme
\* again.
C28_ToggleStep ==
    /\ [][Click =>
             /\ dataTheme' \in Themes
             /\ dataTheme = "dark" => dataTheme' = "light"
             /\ dataTheme # "dark" => dataTheme' = "dark"]_vars
    /\ [](/\ \A v \in {"light", NoValue, ""} \cup ForeignThemes :
                 newTheme(v) = "dark"
          /\ \A v \in Themes : newTheme(newTheme(v)) = v)
    /\ [](loads = 1 /\ mainLoaded /\ clicks = 2 => dataTheme = "light")

\* C28's case: the toggle was clicked while data-theme held an unrecognised
\* value, and dark is what it holds now.
C28_Witness ==
    /\ loads = 1 /\ clicks = 1 /\ dataTheme = "dark" /\ localStorage = "dark"


\* The frame callbacks pending for the five scenes.
Requests == <<hero.raf, tech.raf, about.raf, cta.raf, feat.raf>>

\* C29 (single render loop per scene): no scene ever has more than one frame
\* callback pending, and a resize, a theme change and its observer callbacks,
\* and a pointer event leave the number of pending callbacks of every scene
\* as it is.
C29_SingleRenderLoop ==
    /\ [](\A sc \in {hero, tech, about, cta, feat} : sc.raf <= 1)
    /\ [][Resize \/ Click \/ Notify \/ MouseMove => Requests' = Requests]_vars

\* C29's case: a running hero scene after a resize, a theme change and a
\* pointer movement.
C29_Witness ==
    /\ Built(hero) /\ Built(about) /\ hero.raf = 1 /\ about.raf = 1
    /\ viewport # [w |-> 800, h |-> 600] /\ clicks > 0 /\ ~Pending
    /\ hero.mouse.x # 0 /\ hero.frames >= 2


\* C30 (counter animation runs once and finishes): animateCounter is called
\* at most once for each counter however often it enters the viewport; a
\* frame at which the animation's progress has reached 1 requests no further
\* frame; and a counter whose animation has ended shows exactly its
\* data-count target.
C30_CounterRunsOnce ==
    /\ [](\A i \in DOMAIN main.counters :
             /\ main.counters[i].starts <= 1
             /\ main.counters[i].requests <= 1
             /\ main.counters[i].starts = 1 /\ main.counters[i].requests = 0
                    => main.counters[i].text = main.counters[i].target)
    /\ [][CounterFrame =>
             \A i \in DOMAIN main.counters :
                 main'.clock - main.counters[i].startTime >= Duration
                     => main'.counters[i].requests = 0]_vars

=============================================================================
